---------------------------- MODULE Spec2Model ----------------------------
(***************************************************************************)
(* A model of the RSS filter bot of src/main.py: the per-user              *)
(* configuration objects, the two SQLite tables, the command handlers and  *)
(* the per-user poll task (parsing_loop), as asyncio coroutines that       *)
(* interleave at their await points.                                       *)
(*                                                                         *)
(* A text or a regular expression is the sequence of its characters, a     *)
(* Cyrillic letter written as its code point ("U+0442").  re.compile is    *)
(* computed by the parser of the re module, and re.search for the syntax   *)
(* the default pattern lists use.                                          *)
(***************************************************************************)
EXTENDS Integers, Sequences, FiniteSets, TLC

(***************************************************************************)
(* Bounds of the model.                                                    *)
(***************************************************************************)
\* longest text given to check_patterns in SpecClassify
MaxTextLen == 2
\* longest minor / major pattern list of a ruleset in SpecClassify
MaxMinors == 2
MaxMajors == 2
\* largest threshold of a ruleset in SpecClassify
MaxThreshold == 2
\* commands (handler invocations) a user sends in one run
MaxCommands == 3
\* poll cycles (feed fetches) begun in one run, over all tasks
MaxCycles == 2
\* times the process is killed and started again
MaxBoots == 1
\* commands and poll cycles of one run of SpecRules
RulesCommands == 4
RulesCycles == 1
\* commands user 1 sends and poll cycles that begin, in SpecStore
StoreCommands == 3
StoreCycles == 2
\* commands user 1 sends and poll cycles that begin, in SpecFaults
FaultCommands == 2
FaultCycles == 2
\* the runs of SpecScopes: commands one user sends, the other sending
\* OtherCommands, and poll cycles that begin; commands user 1 sends when no
\* poll cycle begins; poll cycles that begin when each user sends
\* OtherCommands commands
ScopeCommands == 2
ScopeCycles == 1
ScopeEditCommands == 3
OtherCommands == 1
ScopePollCycles == 2
\* commands user 1 sends and poll cycles that begin, in SpecStop
StopCommands == 3
StopCycles == 1
\* commands user 1 sends and poll cycles that begin, in SpecStart
StartCommands == 4
StartCycles == 1
\* callbacks and messages user 1 sends in SpecEdit
EditCommands == 4
\* messages and commands user 1 sends, poll cycles and restarts in SpecForm
FormCommands == 3
FormCycles == 1
FormBoots == 1
\* callbacks and messages user 1 sends in SpecDelete
DeleteCommands == 5
\* commands user 1 sends and poll cycles that begin, in SpecStats
StatsCommands == 2
StatsCycles == 1
\* rows of user_news, and the largest count of a row, in SpecPopulation
PopulationRows == 3
PopulationCount == 1

(***************************************************************************)
(* Program constants.                                                      *)
(***************************************************************************)
DEFAULT_MIN_MINOR == 1

(***************************************************************************)
(* Texts and patterns.                                                     *)
(***************************************************************************)
Chars == {"a", "A", "b", " "}

\* the expressions of the rulesets check_patterns is called with as a
\* function: <<>> is the empty expression, which compiles and matches every
\* string, and the last one is b at the start of a word
Patterns == {<<>>, <<"a">>, <<"b">>, <<"\\", "b", "b">>}

RECURSIVE SeqsUpTo(_, _)
SeqsUpTo(S, n) ==
    IF n = 0 THEN {<<>>}
    ELSE LET shorter == SeqsUpTo(S, n - 1)
         IN  shorter \cup {Append(s, x) : s \in {t \in shorter : Len(t) = n - 1}, x \in S}

\* str.lower() and the characters \w and \s match, for the basic Latin and
\* the Russian alphabet; a Cyrillic letter is written as its code point
LatinUpper ==
    <<"A", "B", "C", "D", "E", "F", "G", "H", "I", "J", "K", "L", "M", "N",
      "O", "P", "Q", "R", "S", "T", "U", "V", "W", "X", "Y", "Z">>
LatinLower ==
    <<"a", "b", "c", "d", "e", "f", "g", "h", "i", "j", "k", "l", "m", "n",
      "o", "p", "q", "r", "s", "t", "u", "v", "w", "x", "y", "z">>
CyrillicUpper ==
    <<"U+0410", "U+0411", "U+0412", "U+0413", "U+0414", "U+0415", "U+0416",
      "U+0417", "U+0418", "U+0419", "U+041A", "U+041B", "U+041C", "U+041D",
      "U+041E", "U+041F", "U+0420", "U+0421", "U+0422", "U+0423", "U+0424",
      "U+0425", "U+0426", "U+0427", "U+0428", "U+0429", "U+042A", "U+042B",
      "U+042C", "U+042D", "U+042E", "U+042F", "U+0401">>
CyrillicLower ==
    <<"U+0430", "U+0431", "U+0432", "U+0433", "U+0434", "U+0435", "U+0436",
      "U+0437", "U+0438", "U+0439", "U+043A", "U+043B", "U+043C", "U+043D",
      "U+043E", "U+043F", "U+0440", "U+0441", "U+0442", "U+0443", "U+0444",
      "U+0445", "U+0446", "U+0447", "U+0448", "U+0449", "U+044A", "U+044B",
      "U+044C", "U+044D", "U+044E", "U+044F", "U+0451">>
UpperCase == LatinUpper \o CyrillicUpper
LowerCase == LatinLower \o CyrillicLower
Range(s) == {s[i] : i \in DOMAIN s}
UpperLetters == Range(UpperCase)
Digits == {"0", "1", "2", "3", "4", "5", "6", "7", "8", "9"}
WordChars == UpperLetters \cup Range(LowerCase) \cup Digits \cup {"_"}

\* one character of str.lower()
Lower(c) ==
    IF c \in UpperLetters
    THEN LowerCase[CHOOSE i \in DOMAIN UpperCase : UpperCase[i] = c]
    ELSE c

\* str.lower()
LowerText(t) == [i \in 1..Len(t) |-> Lower(t[i])]

DigitValue(c) ==
    CASE c = "0" -> 0 [] c = "1" -> 1 [] c = "2" -> 2 [] c = "3" -> 3
      [] c = "4" -> 4 [] c = "5" -> 5 [] c = "6" -> 6 [] c = "7" -> 7
      [] c = "8" -> 8 [] c = "9" -> 9 [] OTHER -> -1

(***************************************************************************)
(* re.compile(pattern), as process_minor_pattern and process_major_pattern *)
(* call it (lines 591-592): the parser of the re module of CPython 3.11    *)
(* (re/_parser.py), followed as far as it decides whether the call         *)
(* returns, raises re.error or raises another exception; where the re      *)
(* modules of 3.11 differ, the widths of look-behinds, the model follows   *)
(* both (ReModules).  A character is                                       *)
(* a string: an ASCII character itself, a Russian letter its code point    *)
(* ("U+0436"); characters outside AsciiChars, Whitespace and the Russian   *)
(* alphabet are outside the model, and so are the names unicodedata knows  *)
(* for characters other than the blank, the digits and the letters, and    *)
(* expressions nested deeper than the interpreter's recursion limit.  In   *)
(* this section "lines" are the lines of re/_parser.py.  A call of the     *)
(* parser is one operator or a chain of operators, each of which takes     *)
(* what the call has read so far.                                          *)
(***************************************************************************)
\* the numbers 0 .. 2^32 - 1 as <<high, low>> halves of 16 bits; MAXREPEAT
\* also stands for every greater number
Base == 65536
MAXREPEAT == <<65535, 65535>>
MAXGROUPS == 1073741823

Num(n) == <<n \div Base, n % Base>>

Less(a, b) == a[1] < b[1] \/ (a[1] = b[1] /\ a[2] < b[2])
Least(a, b) == IF Less(b, a) THEN b ELSE a
Greatest(a, b) == IF Less(a, b) THEN b ELSE a

Plus(a, b) ==
    LET low == a[2] + b[2]
        high == a[1] + b[1] + (low \div Base)
    IN  IF high >= Base THEN MAXREPEAT ELSE <<high, low % Base>>

\* the product of two halves
Product(x, y) ==
    LET high == (x \div 256) * y
        low == (x % 256) * y
    IN  Plus(<<high \div 256, (high % 256) * 256>>, Num(low))

Times(a, b) ==
    LET cross == IF a[1] = 0 THEN Product(a[2], b[1]) ELSE Product(a[1], b[2])
    IN  IF (a[1] > 0 /\ b[1] > 0) \/ cross[1] > 0 THEN MAXREPEAT
        ELSE Plus(<<cross[2], 0>>, Product(a[2], b[2]))

\* The widths of SubPattern.getwidth.  The repository pins no interpreter,
\* and the re modules of CPython 3.11 differ in them: up to 3.11.6 a width
\* is capped at (MAXREPEAT - 1, MAXREPEAT), _compiler wants a look-behind
\* of one width and _sre.compile one below 2^31; from 3.11.7 a width is
\* capped at MAXWIDTH = 2^64, an unbounded repeat of an item with a width
\* has the width MAXWIDTH, and _compiler wants a look-behind of one width of
\* at most MAXCODE.  ReModules names the two by the cap.
ReModules == {"MAXREPEAT", "MAXWIDTH"}

\* the numbers 0 .. 2^64 as four halves of 16 bits, the first one 65536
\* for 2^64, which also stands for every greater number
MAXWIDTH == <<65536, 0, 0, 0>>
MAXCODE == <<0, 0, 65535, 65535>>
NoWidth == <<0, 0, 0, 0>>
OneWidth == <<0, 0, 0, 1>>

Width(n) == <<0, 0, n[1], n[2]>>

Below(a, b) ==
    \E i \in 1..4 : a[i] < b[i] /\ \A j \in 1..(i - 1) : a[j] = b[j]
Narrowest(a, b) == IF Below(b, a) THEN b ELSE a
Widest(a, b) == IF Below(a, b) THEN b ELSE a

Carried(s0, s1, s2, s3) ==
    IF s3 >= Base THEN MAXWIDTH ELSE <<s3, s2 % Base, s1 % Base, s0 % Base>>
Carry3(s0, s1, s2, a, b) ==
    Carried(s0, s1, s2, a[1] + b[1] + (s2 \div Base))
Carry2(s0, s1, a, b) == Carry3(s0, s1, a[2] + b[2] + (s1 \div Base), a, b)
Carry1(s0, a, b) == Carry2(s0, a[3] + b[3] + (s0 \div Base), a, b)
Sum(a, b) == Carry1(a[4] + b[4], a, b)

\* the width times 2^(16 k)
Shifted(w, k) ==
    IF \E i \in 1..k : w[i] # 0 THEN MAXWIDTH
    ELSE [i \in 1..4 |-> IF i + k <= 4 THEN w[i + k] ELSE 0]

\* the width times a half, and times a number of a repeat
Scaled(a, y) ==
    Sum(Sum(Shifted(Width(Product(a[1], y)), 3),
            Shifted(Width(Product(a[2], y)), 2)),
        Sum(Shifted(Width(Product(a[3], y)), 1), Width(Product(a[4], y))))
Multiplied(a, n) == Sum(Scaled(a, n[2]), Shifted(Scaled(a, n[1]), 1))

\* the least and the greatest of a set of numbers
Minimum(S) == CHOOSE x \in S : \A y \in S : x <= y
Maximum(S) == CHOOSE x \in S : \A y \in S : x >= y

\* a string of digits without its leading zeros
Significant(digits) ==
    SubSeq(digits, Minimum({i \in 1..(Len(digits) + 1) :
                              i > Len(digits) \/ digits[i] # "0"}),
           Len(digits))

\* int(digits) for a string of ASCII digits, up to MAXREPEAT
RECURSIVE Value(_, _)
Value(digits, acc) ==
    IF digits = <<>> THEN acc
    ELSE Value(Tail(digits),
               Plus(Times(acc, Num(10)), Num(DigitValue(Head(digits)))))

Count(d) == IF Len(d) > 10 THEN MAXREPEAT ELSE Value(d, <<0, 0>>)

Number(digits) == Count(Significant(digits))

\* ord(c); the grave accent is written as its code point
AsciiChars ==
    <<" ", "!", "\"", "#", "$", "%", "&", "'", "(", ")", "*", "+", ",", "-",
      ".", "/", "0", "1", "2", "3", "4", "5", "6", "7", "8", "9", ":", ";",
      "<", "=", ">", "?", "@", "A", "B", "C", "D", "E", "F", "G", "H", "I",
      "J", "K", "L", "M", "N", "O", "P", "Q", "R", "S", "T", "U", "V", "W",
      "X", "Y", "Z", "[", "\\", "]", "^", "_", "U+0060", "a", "b", "c", "d", "e",
      "f", "g", "h", "i", "j", "k", "l", "m", "n", "o", "p", "q", "r", "s",
      "t", "u", "v", "w", "x", "y", "z", "{", "|", "}", "~">>

Index(s, c) == CHOOSE i \in DOMAIN s : s[i] = c

Ord(c) ==
    CASE c \in Range(AsciiChars) -> 31 + Index(AsciiChars, c)
      [] c = "\t" -> 9
      [] c = "\n" -> 10
      [] c = "\f" -> 12
      [] c = "\r" -> 13
      [] c = "U+0401" -> 1025
      [] c = "U+0451" -> 1105
      [] c \in Range(CyrillicUpper) \ {"U+0401"} ->
             1039 + Index(CyrillicUpper, c)
      [] c \in Range(CyrillicLower) \ {"U+0451"} ->
             1071 + Index(CyrillicLower, c)

\* str.isspace, and WHITESPACE of the parser, within the alphabet
Whitespace == {" ", "\t", "\n", "\r", "\f"}

Letters == UpperLetters \cup Range(LowerCase)
OctDigits == {"0", "1", "2", "3", "4", "5", "6", "7"}
HexDigits == Digits \cup {"a", "b", "c", "d", "e", "f", "A", "B", "C", "D", "E", "F"}
AsciiLetters == Range(LatinUpper) \cup Range(LatinLower)

HexValue(c) ==
    CASE c \in Digits -> DigitValue(c)
      [] c \in {"a", "A"} -> 10 [] c \in {"b", "B"} -> 11
      [] c \in {"c", "C"} -> 12 [] c \in {"d", "D"} -> 13
      [] c \in {"e", "E"} -> 14 [] c \in {"f", "F"} -> 15

\* int(digits, 16) and int(digits, 8); a number beyond the last code point
\* is given as 0x110000
RECURSIVE Radix(_, _, _)
Radix(digits, base, acc) ==
    IF digits = <<>> THEN acc
    ELSE IF acc > 1114111 THEN 1114112
    ELSE Radix(Tail(digits), base, base * acc + HexValue(Head(digits)))

\* str.isidentifier
isidentifier(name) ==
    /\ name # <<>>
    /\ name[1] \in Letters \cup {"_"}
    /\ \A i \in DOMAIN name : name[i] \in Letters \cup Digits \cup {"_"}

\* str.strip()
Strip(t) ==
    LET black == {i \in DOMAIN t : t[i] \notin Whitespace}
    IN  IF black = {} THEN <<>>
        ELSE SubSeq(t, Minimum(black), Maximum(black))

\* the literal int() accepts: blanks around an optional sign and decimal
\* digits with single underscores between them, of at most 4300 digits
\* (sys.int_max_str_digits; leading zeros count, underscores do not).
\* Gives the sign and the digits, <<>> for ValueError
SelectDigits(t) == SelectSeq(t, LAMBDA c : c # "_")

Unsigned(body, negative) ==
    IF /\ body # <<>>
       /\ \A i \in DOMAIN body : body[i] \in Digits \cup {"_"}
       /\ body[1] # "_"
       /\ body[Len(body)] # "_"
       /\ \A i \in 1..(Len(body) - 1) : ~(body[i] = "_" /\ body[i + 1] = "_")
       /\ Len(SelectDigits(body)) <= 4300
    THEN <<[negative |-> negative, digits |-> SelectDigits(body)]>>
    ELSE <<>>

Literal(t) ==
    IF t # <<>> /\ Head(t) \in {"-", "+"} THEN Unsigned(Tail(t), Head(t) = "-")
    ELSE Unsigned(t, FALSE)

IntLiteral(text) == Literal(Strip(text))

\* the number a string of ASCII digits writes; like Python's, the integers
\* are unbounded
RECURSIVE Decimal(_, _)
Decimal(digits, acc) ==
    IF digits = <<>> THEN acc
    ELSE Decimal(Tail(digits), 10 * acc + DigitValue(Head(digits)))

\* int(text): <<n>>, or <<>> for ValueError; the leading zeros are left
\* out before the number is computed
IntValue(literal) ==
    IF literal = <<>> THEN <<>>
    ELSE IF literal[1].negative
    THEN << 0 - Decimal(Significant(literal[1].digits), 0) >>
    ELSE << Decimal(Significant(literal[1].digits), 0) >>

int(text) == IntValue(IntLiteral(text))

\* unicodedata.lookup(name) for the names of the blank, the ASCII digits and
\* the Latin and Russian letters; -1 for KeyError
Upper(c) ==
    IF c \in Range(LowerCase)
    THEN UpperCase[CHOOSE i \in DOMAIN LowerCase : LowerCase[i] = c]
    ELSE c

DigitNames ==
    << <<"Z", "E", "R", "O">>, <<"O", "N", "E">>, <<"T", "W", "O">>,
       <<"T", "H", "R", "E", "E">>, <<"F", "O", "U", "R">>,
       <<"F", "I", "V", "E">>, <<"S", "I", "X">>,
       <<"S", "E", "V", "E", "N">>, <<"E", "I", "G", "H", "T">>,
       <<"N", "I", "N", "E">> >>

CyrillicNames ==
    << <<"A">>, <<"B", "E">>, <<"V", "E">>, <<"G", "H", "E">>, <<"D", "E">>,
       <<"I", "E">>, <<"Z", "H", "E">>, <<"Z", "E">>, <<"I">>,
       <<"S", "H", "O", "R", "T", " ", "I">>, <<"K", "A">>, <<"E", "L">>,
       <<"E", "M">>, <<"E", "N">>, <<"O">>, <<"P", "E">>, <<"E", "R">>,
       <<"E", "S">>, <<"T", "E">>, <<"U">>, <<"E", "F">>, <<"H", "A">>,
       <<"T", "S", "E">>, <<"C", "H", "E">>, <<"S", "H", "A">>,
       <<"S", "H", "C", "H", "A">>,
       <<"H", "A", "R", "D", " ", "S", "I", "G", "N">>,
       <<"Y", "E", "R", "U">>,
       <<"S", "O", "F", "T", " ", "S", "I", "G", "N">>, <<"E">>,
       <<"Y", "U">>, <<"Y", "A">>, <<"I", "O">> >>

Capital == <<"C", "A", "P", "I", "T", "A", "L", " ", "L", "E", "T", "T", "E", "R", " ">>
Small == <<"S", "M", "A", "L", "L", " ", "L", "E", "T", "T", "E", "R", " ">>
Latin == <<"L", "A", "T", "I", "N", " ">>
Cyrillic == <<"C", "Y", "R", "I", "L", "L", "I", "C", " ">>

UnicodeNames ==
    {[name |-> <<"S", "P", "A", "C", "E">>, code |-> 32]}
    \cup {[name |-> <<"D", "I", "G", "I", "T", " ">> \o DigitNames[d + 1],
           code |-> 48 + d] : d \in 0..9}
    \cup {[name |-> Latin \o Capital \o <<LatinUpper[k]>>,
           code |-> 64 + k] : k \in DOMAIN LatinUpper}
    \cup {[name |-> Latin \o Small \o <<LatinUpper[k]>>,
           code |-> 96 + k] : k \in DOMAIN LatinUpper}
    \cup {[name |-> Cyrillic \o Capital \o CyrillicNames[k],
           code |-> Ord(CyrillicUpper[k])] : k \in DOMAIN CyrillicNames}
    \cup {[name |-> Cyrillic \o Small \o CyrillicNames[k],
           code |-> Ord(CyrillicLower[k])] : k \in DOMAIN CyrillicNames}

lookup(name) ==
    LET upper == [i \in DOMAIN name |-> Upper(name[i])]
        found == {n \in UnicodeNames : n.name = upper}
    IN  IF found = {} THEN -1 ELSE (CHOOSE n \in found : TRUE).code

\* the state of the parse.  The re module that parses, by its cap on widths
\* (maxwidth).  The Tokenizer: the index i of source.next.  The
\* State of the parser: groupdict as the names of the groups in the order
\* of their numbers, <<>> for a group without one; groupwidths with <<>>
\* for an open group; lookbehindgroups with 0 for None; flags;
\* grouprefpos.  Whether a repeat or a look-behind met so far is one the
\* compiler rejects (repeats, variable) or _sre.compile rejects (wide).
\* What the last call returned: a text, a character code, the kind of an
\* item, a width (lo, hi) or the bounds of a repeat, the flags of a group.
\* The local variables of the running call of _parse (verbose, first, the
\* width (blo, bhi) of the items before the last one, the last item and its
\* width (ilo, ihi)) and of _parse_sub (its argument sub_verbose, the
\* number nth of alternatives read and their width (alo, ahi)); mode is
\* "class" inside a character set and "done" when parse_sub has returned
\* to parse.  The calls of _parse and _parse_sub for the groups that are
\* open: stack, with the local variables of each caller
Tokenizer(i, st, maxwidth) ==
    [i |-> i, st |-> st, maxwidth |-> maxwidth,
     groupdict |-> <<>>, groupwidths |-> <<>>,
     lookbehindgroups |-> 0, flags |-> {}, grouprefpos |-> {},
     repeats |-> FALSE, variable |-> FALSE, wide |-> FALSE,
     text |-> <<>>, code |-> 0, kind |-> "none",
     lo |-> NoWidth, hi |-> NoWidth, add_flags |-> {}, del_flags |-> {},
     mode |-> "items", stack |-> <<>>,
     verbose |-> FALSE, first |-> TRUE, last |-> "none",
     blo |-> NoWidth, bhi |-> NoWidth, ilo |-> NoWidth, ihi |-> NoWidth,
     sub_verbose |-> FALSE, nth |-> 0, alo |-> NoWidth, ahi |-> NoWidth]

\* source.next: the character or the escaped character at index i, <<>> at
\* the end
SourceNext(p, i) ==
    IF i > Len(p) THEN <<>>
    ELSE IF p[i] = "\\" /\ i < Len(p) THEN <<"\\", p[i + 1]>>
    ELSE <<p[i]>>

\* Tokenizer.__next raises "bad escape (end of pattern)" when it comes to a
\* backslash that ends the expression
AtLoneBackslash(p, j) == j = Len(p) /\ p[j] = "\\"

error(s) == [s EXCEPT !.st = "error"]

\* the source at index j, which is after index s.i
Seek(p, s, j) ==
    [s EXCEPT !.i = j, !.st = IF AtLoneBackslash(p, j) THEN "error" ELSE @]

\* source.get()
SourceGet(p, s) ==
    IF SourceNext(p, s.i) = <<>> THEN s
    ELSE Seek(p, s, s.i + Len(SourceNext(p, s.i)))

\* source.getwhile(n, charset) for a charset without the backslash, the
\* result in text
getwhile(p, s, n, charset) ==
    LET j == Minimum({k \in s.i..(Len(p) + 1) :
                         k = s.i + n \/ k > Len(p) \/ p[k] \notin charset})
    IN  IF j = s.i THEN [s EXCEPT !.text = <<>>]
        ELSE [Seek(p, s, j) EXCEPT !.text = SubSeq(p, s.i, j - 1)]

\* whether the character at index j is escaped, when a character or an
\* escape starts at index i: the backslashes just before it are odd in
\* number
Escaped(p, i, j) ==
    Cardinality({k \in i..(j - 1) : \A l \in k..(j - 1) : p[l] = "\\"}) % 2 = 1

\* the index of the first character c from index i on that is not escaped,
\* 0 if there is none
Find(p, i, c) ==
    LET found == {j \in i..Len(p) : p[j] = c /\ ~Escaped(p, i, j)}
    IN  IF found = {} THEN 0 ELSE Minimum(found)

\* source.getuntil(terminator, name), the result in text; j is the index of
\* the terminator
Until(p, s, j) ==
    IF j = 0 \/ j = s.i THEN error(s)
    ELSE [Seek(p, s, j + 1) EXCEPT !.text = SubSeq(p, s.i, j - 1)]

getuntil(p, s, terminator) == Until(p, s, Find(p, s.i, terminator))

\* state.groups
Groups(s) == Len(s.groupwidths) + 1

\* state.checkgroup(gid)
checkgroup(s, gid) == gid < Groups(s) /\ s.groupwidths[gid] # <<>>

\* state.checklookbehindgroup(gid, source) does not raise
checklookbehindgroup(s, gid) ==
    s.lookbehindgroups = 0
        \/ (checkgroup(s, gid) /\ gid < s.lookbehindgroups)

\* state.groupdict.get(name), 0 for None
GroupOfName(s, name) ==
    IF \E g \in DOMAIN s.groupdict : s.groupdict[g] = name
    THEN CHOOSE g \in DOMAIN s.groupdict : s.groupdict[g] = name
    ELSE 0

\* ESCAPES
EscapeCode(c) ==
    CASE c = "a" -> 7 [] c = "b" -> 8 [] c = "f" -> 12 [] c = "n" -> 10
      [] c = "r" -> 13 [] c = "t" -> 9 [] c = "v" -> 11 [] c = "\\" -> 92
      [] OTHER -> -1

\* the character of code, -1 for one there is not
WithCode(s, code) == IF code < 0 THEN error(s) ELSE [s EXCEPT !.code = code]

\* the escapes \xhh, \uhhhh and \Uhhhhhhhh: the code of the character,
\* from the digits read.  chr raises ValueError, which the parser turns
\* into re.error, for a number beyond the last code point, and
\* OverflowError, which it lets through, for one of 2^31 or more
HexCode(s, n) ==
    IF s.st # "ok" THEN s
    ELSE IF Len(s.text) # n THEN error(s)
    ELSE IF n = 8 /\ HexValue(s.text[1]) >= 8 THEN [s EXCEPT !.st = "other"]
    ELSE IF Radix(s.text, 16, 0) > 1114111 THEN error(s)
    ELSE [s EXCEPT !.code = Radix(s.text, 16, 0)]

HexLength(c) == CASE c = "x" -> 2 [] c = "u" -> 4 [] c = "U" -> 8

HexEscape(p, s, c) ==
    HexCode(getwhile(p, s, HexLength(c), HexDigits), HexLength(c))

\* the escape \N{name}
NamedCode(s) == IF s.st # "ok" THEN s ELSE WithCode(s, lookup(s.text))

NamedEscape(p, s) ==
    IF SourceNext(p, s.i) # <<"{">> THEN error(s)
    ELSE NamedCode(getuntil(p, SourceGet(p, s), "}"))

\* the octal escape whose first digit is c, of up to three digits
OctalCode(s, c) ==
    IF s.st # "ok" THEN s
    ELSE IF Radix(<<c>> \o s.text, 8, 0) > 255 THEN error(s)
    ELSE [s EXCEPT !.code = Radix(<<c>> \o s.text, 8, 0)]

OctalEscape(p, s, c) == OctalCode(getwhile(p, s, 2, OctDigits), c)

\* _class_escape(source, escape) for the escape of the character c: the
\* code of a character, -1 for a category
class_escape(p, s, c) ==
    IF EscapeCode(c) >= 0 THEN [s EXCEPT !.code = EscapeCode(c)]
    ELSE IF c \in {"d", "D", "s", "S", "w", "W"} THEN [s EXCEPT !.code = -1]
    ELSE IF c \in {"x", "u", "U"} THEN HexEscape(p, s, c)
    ELSE IF c = "N" THEN NamedEscape(p, s)
    ELSE IF c \in OctDigits THEN OctalEscape(p, s, c)
    ELSE IF c \in Digits \cup AsciiLetters THEN error(s)
    ELSE [s EXCEPT !.code = Ord(c)]

\* what a turn of the loop of _parse has read: an item of the width
\* (lo, hi) or a position (AT, ...), which has no width
Piece(s, kind, lo, hi) == [s EXCEPT !.kind = kind, !.lo = lo, !.hi = hi]
Unit(s) == Piece(s, "item", OneWidth, OneWidth)
At(s) == Piece(s, "at", NoWidth, NoWidth)

\* (GROUPREF, gid)
GroupRef(s, gid) ==
    IF ~checkgroup(s, gid) \/ ~checklookbehindgroup(s, gid) THEN error(s)
    ELSE Piece(s, "item", s.groupwidths[gid][1], s.groupwidths[gid][2])

\* _escape for a digit from 1 to 9: an octal escape of three digits or the
\* reference to a group
Referred(s, group) ==
    IF group < Groups(s) THEN GroupRef(s, group) ELSE error(s)

ThreeDigits(s, digits) ==
    IF s.st # "ok" THEN s
    ELSE IF Radix(digits, 8, 0) > 255 THEN error(s)
    ELSE Unit(s)

TwoDigits(p, s, c, d) ==
    IF s.st # "ok" THEN s
    ELSE IF /\ c \in OctDigits /\ d \in OctDigits
            /\ SourceNext(p, s.i) \in {<<o>> : o \in OctDigits}
    THEN ThreeDigits(SourceGet(p, s), <<c, d, p[s.i]>>)
    ELSE Referred(s, 10 * DigitValue(c) + DigitValue(d))

DigitEscape(p, s, c) ==
    IF SourceNext(p, s.i) \in {<<d>> : d \in Digits}
    THEN TwoDigits(p, SourceGet(p, s), c, p[s.i])
    ELSE Referred(s, DigitValue(c))

Numeric(s) == IF s.st # "ok" THEN s ELSE Unit(s)

\* _escape(source, escape, state) for the escape of the character c
escape(p, s, c) ==
    IF c \in {"A", "b", "B", "Z"} THEN At(s)
    ELSE IF c \in {"d", "D", "s", "S", "w", "W"} THEN Unit(s)
    ELSE IF EscapeCode(c) >= 0 THEN Unit(s)
    ELSE IF c \in {"x", "u", "U"} THEN Numeric(HexEscape(p, s, c))
    ELSE IF c = "N" THEN Numeric(NamedEscape(p, s))
    ELSE IF c = "0" THEN Numeric(getwhile(p, s, 2, OctDigits))
    ELSE IF c \in Digits THEN DigitEscape(p, s, c)
    ELSE IF c \in AsciiLetters THEN error(s)
    ELSE Unit(s)

\* one end of a member of a character set: a character or an escape
ClassCode(p, s, this) ==
    IF Len(this) = 2 THEN class_escape(p, s, this[2])
    ELSE [s EXCEPT !.code = Ord(this[1])]

\* _parse, one turn of the loop of lines 562-612 over the members of a
\* character set: kind is "empty" before the first member, "closed" after
\* the "]".  A member is a character (code1) or a range of characters, from
\* code1 to code2
Span(code1, code2) ==
    IF code2.st # "ok" THEN code2
    ELSE IF code1.code < 0 \/ code2.code < 0 \/ code2.code < code1.code
    THEN error(code2)
    ELSE [code2 EXCEPT !.kind = "open"]

RangeEnd(p, code1, s, that) ==
    IF s.st # "ok" THEN s
    ELSE IF that = <<"]">> THEN [s EXCEPT !.kind = "closed"]
    ELSE Span(code1, ClassCode(p, s, that))

RangeTo(p, code1, dash) ==
    IF dash.st # "ok" THEN dash
    ELSE IF SourceNext(p, dash.i) = <<>> THEN error(dash)
    ELSE RangeEnd(p, code1, SourceGet(p, dash), SourceNext(p, dash.i))

RangeFrom(p, code1) ==
    IF code1.st # "ok" THEN code1
    ELSE IF SourceNext(p, code1.i) # <<"-">>
    THEN [code1 EXCEPT !.kind = "open"]
    ELSE RangeTo(p, code1, SourceGet(p, code1))

MemberFrom(p, s, this) ==
    IF s.st # "ok" THEN s
    ELSE IF this = <<"]">> /\ s.kind # "empty"
    THEN [s EXCEPT !.kind = "closed"]
    ELSE RangeFrom(p, ClassCode(p, s, this))

ClassMember(p, s) ==
    IF SourceNext(p, s.i) = <<>> THEN error(s)
    ELSE MemberFrom(p, SourceGet(p, s), SourceNext(p, s.i))

\* _parse, lines 548-561: the start of a character set, after its "["
CharacterSet(p, s) ==
    LET s1 == IF SourceNext(p, s.i) = <<"^">> THEN SourceGet(p, s) ELSE s
    IN  [s1 EXCEPT !.mode = "class", !.kind = "empty"]

\* FLAGS
FlagChars == {"i", "L", "m", "s", "x", "a", "t", "u"}

\* _parse_flags, the loops of lines 891-907 and 917-927: the flags from the
\* one before the source up to the character that ends them, which is one
\* of ends.  The flags are left in text and the source after the end
FlagEnd(p, run, ends) ==
    IF run.st # "ok" THEN run
    ELSE IF SourceNext(p, run.i) \notin ends THEN error(run)
    ELSE SourceGet(p, run)

FlagRun(p, s, ends) ==
    FlagEnd(p, getwhile(p, [s EXCEPT !.i = @ - 1], Len(p), FlagChars), ends)

\* _parse_flags, the flags turned on, after the first of them: the "L" is
\* for bytes patterns and "a" excludes "u"
TurnedOn(p, run) ==
    IF run.st # "ok" THEN run
    ELSE IF "L" \in Range(run.text) \/ {"a", "u"} \subseteq Range(run.text)
    THEN error(run)
    ELSE [run EXCEPT !.add_flags = Range(run.text), !.del_flags = {},
                     !.text = <<p[run.i - 1]>>]

FlagsOn(p, s) == TurnedOn(p, FlagRun(p, s, {<<")">>, <<"-">>, <<":">>}))

\* _parse_flags, the flags turned off, after the first of them
TurnedOff(run) ==
    IF run.st # "ok" THEN run
    ELSE IF Range(run.text) \cap {"a", "u", "L"} # {} THEN error(run)
    ELSE [run EXCEPT !.del_flags = Range(run.text)]

FlagsOff(p, s) == TurnedOff(FlagRun(p, s, {<<":">>}))

\* _parse_flags, lines 928-933: the flags of a group
ScopedFlags(s) ==
    IF s.st # "ok" THEN s
    ELSE IF "t" \in s.del_flags \/ s.add_flags \cap s.del_flags # {}
    THEN error(s)
    ELSE [s EXCEPT !.kind = "scoped"]

Removal(p, s) == IF s.st # "ok" THEN s ELSE ScopedFlags(FlagsOff(p, s))

FlagsEnd(p, on) ==
    IF on.st # "ok" THEN on
    ELSE IF on.text = <<")">>
    THEN [on EXCEPT !.flags = @ \cup on.add_flags, !.kind = "flags"]
    ELSE IF "t" \in on.add_flags THEN error(on)
    ELSE IF on.text = <<":">> THEN ScopedFlags(on)
    ELSE IF SourceNext(p, on.i) \notin {<<c>> : c \in FlagChars}
    THEN error(on)
    ELSE Removal(p, SourceGet(p, on))

\* _parse_flags(source, state, char): kind "flags" for global flags, which
\* are added to state.flags, "scoped" for the flags of a group
parse_flags(p, s, char) ==
    FlagsEnd(p, IF char = "-"
                THEN [s EXCEPT !.add_flags = {}, !.del_flags = {},
                               !.text = <<"-">>]
                ELSE FlagsOn(p, s))

\* _parse, lines 636-676: the bounds of the repeat whose first character,
\* this, has been read.  kind "literal" is a "{" that opens no repeat, with
\* the source where it was; OverflowError is raised for a bound of MAXREPEAT
\* or more
Bounds(s, min, max) == Piece(s, "repeat", min, max)

\* the bounds from their digits, lo and hi
MinMax(s, lo, hi, min, max) ==
    IF lo # <<>> /\ min = MAXREPEAT THEN [s EXCEPT !.st = "other"]
    ELSE IF hi # <<>> /\ max = MAXREPEAT THEN [s EXCEPT !.st = "other"]
    ELSE IF hi # <<>> /\ Less(max, min) THEN error(s)
    ELSE Bounds(s, min, max)

Counted(s, lo, hi) ==
    IF s.st # "ok" THEN s
    ELSE MinMax(s, lo, hi, IF lo = <<>> THEN <<0, 0>> ELSE Number(lo),
                IF hi = <<>> THEN MAXREPEAT ELSE Number(hi))

\* s is the source at the "{", s1 the source after the digits
BraceEnd(p, s, s1, lo, hi) ==
    IF SourceNext(p, s1.i) # <<"}">> THEN [s EXCEPT !.kind = "literal"]
    ELSE Counted(SourceGet(p, s1), lo, hi)

UpperDigits(p, s, lo, hi) ==
    IF hi.st # "ok" THEN hi ELSE BraceEnd(p, s, hi, lo, hi.text)

UpperBound(p, s, lo, s1) ==
    IF s1.st # "ok" THEN s1
    ELSE UpperDigits(p, s, lo, getwhile(p, s1, Len(p), Digits))

LowerBound(p, s, lo) ==
    IF lo.st # "ok" THEN lo
    ELSE IF SourceNext(p, lo.i) = <<",">>
    THEN UpperBound(p, s, lo.text, SourceGet(p, lo))
    ELSE BraceEnd(p, s, lo, lo.text, lo.text)

BraceBounds(p, s) ==
    IF SourceNext(p, s.i) = <<"}">> THEN [s EXCEPT !.kind = "literal"]
    ELSE LowerBound(p, s, getwhile(p, s, Len(p), Digits))

RepeatBounds(p, s, this) ==
    CASE this = "?" -> Bounds(s, <<0, 0>>, <<0, 1>>)
      [] this = "*" -> Bounds(s, <<0, 0>>, MAXREPEAT)
      [] this = "+" -> Bounds(s, <<0, 1>>, MAXREPEAT)
      [] this = "{" -> BraceBounds(p, s)

\* _parse in verbose mode, lines 520-525: a comment up to the end of the
\* line, which is at index j, or of the expression
LineEnd(p, s, j) ==
    IF j > 0 THEN Seek(p, s, j + 1)
    ELSE IF s.i <= Len(p) /\ p[Len(p)] = "\\" /\ ~Escaped(p, s.i, Len(p))
    THEN error(s)
    ELSE [s EXCEPT !.i = Len(p) + 1]

LineComment(p, s) == LineEnd(p, s, Find(p, s.i, "\n"))

\* lines 750-760: the comment of (?#...), which ends at index j
CommentEnd(p, s, j) ==
    IF j = 0 THEN error(s) ELSE [Seek(p, s, j + 1) EXCEPT !.kind = "none"]

GroupComment(p, s) == CommentEnd(p, s, Find(p, s.i, ")"))

\* the local variables of _parse(source, state, verbose, nested, first) as
\* its loop starts
Begin(s, verbose, first) ==
    [s EXCEPT !.verbose = verbose, !.first = first, !.last = "none",
              !.blo = NoWidth, !.bhi = NoWidth,
              !.ilo = NoWidth, !.ihi = NoWidth]

\* the call of _parse_sub or _parse for what a group holds: cont tells
\* what the caller does with the result ("group": the group gid, 0 if it
\* does not capture, of lines 842-862; "ahead" and "behind": the assertions
\* of lines 763-778, the latter with the value of lookbehindgroups to go
\* back to; "yes" and "no": the branches of a conditional, lines 810-820)
Open(s, cont, gid, lookbehindgroups, verbose) ==
    [Begin(s, verbose, FALSE) EXCEPT
        !.stack = Append(@, [cont |-> cont, gid |-> gid,
                             lookbehindgroups |-> lookbehindgroups,
                             ylo |-> NoWidth, yhi |-> NoWidth,
                             verbose |-> s.verbose, first |-> s.first,
                             last |-> s.last, blo |-> s.blo, bhi |-> s.bhi,
                             ilo |-> s.ilo, ihi |-> s.ihi,
                             sub_verbose |-> s.sub_verbose, nth |-> s.nth,
                             alo |-> s.alo, ahi |-> s.ahi]),
        !.sub_verbose = verbose, !.nth = 0, !.kind = "open"]

\* lines 786-802: the group number a conditional names by a number, 0 for
\* what the parser rejects (ValueError of int, a negative number, zero,
\* MAXGROUPS or more)
GroupNumber(literal) ==
    IF literal = <<>> THEN 0
    ELSE IF ~Less(Number(literal[1].digits), Num(MAXGROUPS)) THEN 0
    ELSE IF literal[1].negative THEN 0
    ELSE Number(literal[1].digits)[1] * Base + Number(literal[1].digits)[2]

CondGroup(condname) == GroupNumber(IntLiteral(condname))

\* lines 763-778: a lookahead or a look-behind, after "(?" and char
Behind(s, s1, verbose) ==
    IF s1.st # "ok" THEN s1
    ELSE Open([s1 EXCEPT !.lookbehindgroups = IF @ = 0 THEN Groups(s1) ELSE @],
              "behind", 0, s.lookbehindgroups, verbose)

Lookaround(p, s, verbose, char) ==
    IF char # "<" THEN Open(s, "ahead", 0, 0, verbose)
    ELSE IF SourceNext(p, s.i) \notin {<<"=">>, <<"!">>} THEN error(s)
    ELSE Behind(s, SourceGet(p, s), verbose)

\* lines 780-809: a conditional, after "(?("
Guard(s, condgroup, verbose) ==
    IF condgroup = 0 THEN error(s)
    ELSE IF ~checklookbehindgroup(s, condgroup) THEN error(s)
    ELSE Open(s, "yes", 0, 0, verbose)

Numbered(s, condgroup, verbose) ==
    Guard([s EXCEPT !.grouprefpos = @ \cup {condgroup}], condgroup, verbose)

Condition(named, verbose) ==
    IF named.st # "ok" THEN named
    ELSE IF isidentifier(named.text)
    THEN Guard(named, GroupOfName(named, named.text), verbose)
    ELSE Numbered(named, CondGroup(named.text), verbose)

Conditional(p, s, verbose) == Condition(getuntil(p, s, ")"), verbose)

\* lines 736-748: (?P=name)
Backreference(named) ==
    IF named.st # "ok" THEN named
    ELSE IF ~isidentifier(named.text) THEN error(named)
    ELSE IF GroupOfName(named, named.text) = 0 THEN error(named)
    ELSE GroupRef(named, GroupOfName(named, named.text))

NamedRef(p, s) == Backreference(getuntil(p, s, ")"))

\* lines 842-851: state.opengroup(name) for a capturing group (name is
\* <<>> for one without a name) and the call of _parse_sub
Contents(s, verbose, capture, name) ==
    IF name # <<>> /\ GroupOfName(s, name) # 0 THEN error(s)
    ELSE IF capture
    THEN Open([s EXCEPT !.groupdict = Append(@, name),
                        !.groupwidths = Append(@, <<>>)],
              "group", Groups(s), 0, verbose)
    ELSE Open(s, "group", 0, 0, verbose)

\* lines 727-735: (?P<name>...)
Named(named, verbose) ==
    IF named.st # "ok" THEN named
    ELSE IF ~isidentifier(named.text) THEN error(named)
    ELSE Contents(named, verbose, TRUE, named.text)

NamedGroup(p, s, verbose) == Named(getuntil(p, s, ">"), verbose)

\* lines 828-841: (?flags) and (?flags:...)
Flagged(flags, verbose, first, empty) ==
    IF flags.st # "ok" THEN flags
    ELSE IF flags.kind = "flags"
    THEN IF ~first \/ ~empty THEN error(flags) ELSE flags
    ELSE Contents(flags,
                  (verbose \/ "x" \in flags.add_flags)
                      /\ "x" \notin flags.del_flags,
                  FALSE, <<>>)

FlagGroup(p, s, verbose, first, empty, char) ==
    Flagged(parse_flags(p, s, char), verbose, first, empty)

\* lines 727-748: what follows "(?P"
PythonExtension(p, s, next, verbose) ==
    IF s.st # "ok" THEN s
    ELSE IF next = <<"<">> THEN NamedGroup(p, s, verbose)
    ELSE NamedRef(p, s)

\* lines 723-841: what follows "(?" and char
Extended(p, s, char, verbose, first, empty) ==
    IF s.st # "ok" THEN s
    ELSE IF Len(char) = 2 THEN error(s)
    ELSE CASE char[1] = "P" ->
                IF SourceNext(p, s.i) \in {<<"<">>, <<"=">>}
                THEN PythonExtension(p, SourceGet(p, s), SourceNext(p, s.i),
                                     verbose)
                ELSE error(s)
           [] char[1] \in {":", ">"} -> Contents(s, verbose, FALSE, <<>>)
           [] char[1] = "#" -> GroupComment(p, s)
           [] char[1] \in {"=", "!", "<"} -> Lookaround(p, s, verbose, char[1])
           [] char[1] = "(" -> Conditional(p, s, verbose)
           [] char[1] \in FlagChars \cup {"-"} ->
                FlagGroup(p, s, verbose, first, empty, char[1])
           [] OTHER -> error(s)

Extension(p, s, verbose, first, empty) ==
    IF SourceNext(p, s.i) = <<>> THEN error(s)
    ELSE Extended(p, SourceGet(p, s), SourceNext(p, s.i), verbose, first,
                  empty)

\* lines 714-851: a group, after its "(".  kind is "open" when the call of
\* _parse_sub or _parse for what it holds has started, "item" for
\* (?P=name), "none" for a comment, "flags" for global flags
Group(p, s, verbose, first, empty) ==
    IF SourceNext(p, s.i) # <<"?">> THEN Contents(s, verbose, TRUE, <<>>)
    ELSE Extension(p, SourceGet(p, s), verbose, first, empty)

\* SPECIAL_CHARS
SpecialChars == {".", "\\", "[", "{", "(", ")", "*", "+", "?", "^", "$", "|"}

\* what the character this, which has been read, starts
Item(p, s, this) ==
    IF Len(this) = 2 THEN escape(p, s, this[2])
    ELSE IF s.verbose /\ this[1] \in Whitespace THEN [s EXCEPT !.kind = "none"]
    ELSE IF s.verbose /\ this[1] = "#"
    THEN [LineComment(p, s) EXCEPT !.kind = "none"]
    ELSE IF this[1] \notin SpecialChars \/ this[1] = "." THEN Unit(s)
    ELSE IF this[1] = "[" THEN CharacterSet(p, s)
    ELSE IF this[1] \in {"*", "+", "?", "{"} THEN RepeatBounds(p, s, this[1])
    ELSE IF this[1] = "("
    THEN Group(p, s, s.verbose, s.first, s.last = "none")
    ELSE At(s)

\* subpatternappend: the item is the last one now
Appended(s, kind, lo, hi) ==
    [s EXCEPT !.last = kind, !.blo = Sum(s.blo, s.ilo),
              !.bhi = Sum(s.bhi, s.ihi), !.ilo = lo, !.ihi = hi]

\* getwidth of a repeat of an item of the width (lo, hi), min to max times
RepeatWidth(maxwidth, lo, hi, min, max) ==
    <<Multiplied(lo, min),
      IF maxwidth = "MAXWIDTH" /\ max = MAXREPEAT /\ hi # NoWidth
      THEN MAXWIDTH ELSE Multiplied(hi, max)>>

\* lines 677-712: the repeat of the last item, with the "?" of a lazy or
\* the "+" of a possessive repeat
Repeated(p, s) ==
    LET s1 == IF SourceNext(p, s.i) \in {<<"?">>, <<"+">>}
              THEN SourceGet(p, s) ELSE s
    IN  IF s.last \in {"none", "at", "repeat"} THEN error(s)
        ELSE [s1 EXCEPT
                 !.last = "repeat", !.repeats = TRUE,
                 !.ilo = RepeatWidth(s.maxwidth, s.ilo, s.ihi, s.lo, s.hi)[1],
                 !.ihi = RepeatWidth(s.maxwidth, s.ilo, s.ihi, s.lo, s.hi)[2]]

\* SubPattern.getwidth of what the running call of _parse has read, and of
\* the alternatives the running call of _parse_sub has read with it
Capped(maxwidth, lo, hi) ==
    IF maxwidth = "MAXWIDTH" THEN <<lo, hi>>
    ELSE <<Narrowest(lo, <<0, 0, 65535, 65534>>),
           Narrowest(hi, Width(MAXREPEAT))>>
ItemsWidth(s) == Capped(s.maxwidth, Sum(s.blo, s.ilo), Sum(s.bhi, s.ihi))
SubWidth(s) ==
    IF s.nth = 0 THEN ItemsWidth(s)
    ELSE <<Narrowest(s.alo, ItemsWidth(s)[1]),
           Widest(s.ahi, ItemsWidth(s)[2])>>

\* _parse_sub, lines 447-449, and _parse for a conditional, lines 812-816:
\* a "|" ends the alternative
Bar(p, s) ==
    LET s1 == SourceGet(p, s)
        cont == IF s.stack = <<>> THEN "top" ELSE s.stack[Len(s.stack)].cont
    IN  IF cont = "no" THEN error(s)
        ELSE IF s1.st # "ok" THEN s1
        ELSE IF cont = "yes"
        THEN [Begin(s1, s.verbose, FALSE) EXCEPT
                 !.stack[Len(s.stack)].cont = "no",
                 !.stack[Len(s.stack)].ylo = ItemsWidth(s)[1],
                 !.stack[Len(s.stack)].yhi = ItemsWidth(s)[2]]
        ELSE [Begin(s1, IF cont = "top" THEN "x" \in s.flags
                        ELSE s.sub_verbose, FALSE) EXCEPT
                 !.nth = s.nth + 1, !.alo = SubWidth(s)[1],
                 !.ahi = SubWidth(s)[2]]

\* the item a group is, by what called _parse_sub or _parse for it
GroupWidth(s, frame) ==
    CASE frame.cont = "group" -> SubWidth(s)
      [] frame.cont \in {"ahead", "behind"} -> <<NoWidth, NoWidth>>
      [] frame.cont = "yes" -> <<NoWidth, ItemsWidth(s)[2]>>
      [] frame.cont = "no" -> <<Narrowest(frame.ylo, ItemsWidth(s)[1]),
                                Widest(frame.yhi, ItemsWidth(s)[2])>>

\* lines 774-778, 817-827 and 852-862: the ")" of a group.  _parse_sub or
\* _parse returns to the call of _parse the group is in, which appends the
\* group to its items
Caller(s, frame) ==
    [s EXCEPT !.stack = SubSeq(@, 1, Len(@) - 1),
              !.verbose = frame.verbose,
              !.first = frame.first, !.last = frame.last,
              !.blo = frame.blo, !.bhi = frame.bhi,
              !.ilo = frame.ilo, !.ihi = frame.ihi,
              !.sub_verbose = frame.sub_verbose,
              !.nth = frame.nth, !.alo = frame.alo, !.ahi = frame.ahi]

\* _compiler._compile, ASSERT: the compiler wants a look-behind of one
\* width, which is at most MAXCODE where the re module knows MAXWIDTH
Refused(maxwidth, lo, hi) ==
    lo # hi \/ (maxwidth = "MAXWIDTH" /\ Below(MAXCODE, lo))

\* _sre.compile wants a look-behind below 2^31 where the re module does
\* not know MAXWIDTH
TooWide(maxwidth, lo) == maxwidth = "MAXREPEAT" /\ lo[3] >= 32768

Closed(item, frame, width, sub) ==
    CASE frame.cont = "group" /\ frame.gid > 0 ->
            [item EXCEPT !.groupwidths[frame.gid] = width]
      [] frame.cont = "behind" ->
            [item EXCEPT !.lookbehindgroups = frame.lookbehindgroups,
                         !.variable = @ \/ Refused(item.maxwidth, sub[1],
                                                   sub[2]),
                         !.wide = @ \/ TooWide(item.maxwidth, sub[1])]
      [] OTHER -> item

Returned(s, s1, frame, width) ==
    IF s1.st # "ok" THEN s1
    ELSE Closed(Appended(Caller(s1, frame), "item", width[1], width[2]),
                frame, width, SubWidth(s))

Return(p, s) ==
    Returned(s, SourceGet(p, s), s.stack[Len(s.stack)],
             GroupWidth(s, s.stack[Len(s.stack)]))

\* _parse, one turn of the loop of lines 510-866 that reads an item
Taken(p, item) ==
    IF item.st # "ok" THEN item
    ELSE CASE item.kind \in {"none", "open"} -> item
           [] item.kind = "empty" -> item
           [] item.kind = "flags" ->
                [item EXCEPT !.verbose = "x" \in item.flags]
           [] item.kind = "repeat" -> Repeated(p, item)
           [] item.kind = "literal" ->
                Appended(item, "item", OneWidth, OneWidth)
           [] item.kind \in {"item", "at"} ->
                Appended(item, item.kind, item.lo, item.hi)

Read(p, s, this) ==
    IF s.st # "ok" THEN s ELSE Taken(p, Item(p, s, this))

Turn(p, s) == Read(p, SourceGet(p, s), SourceNext(p, s.i))

\* _parse, line 613: the character set is an item
Member(member) ==
    IF member.st = "ok" /\ member.kind = "closed"
    THEN Appended([member EXCEPT !.mode = "items"], "item", OneWidth,
                  OneWidth)
    ELSE member

\* _parse_sub returns to parse
Done(s, width) == [s EXCEPT !.mode = "done", !.lo = width[1], !.hi = width[2]]

\* one step of the parser: a member of a character set, the end of an
\* alternative or of a subpattern, or an item.  At the end of the
\* expression and at a ")" that closes no group _parse_sub returns to parse
Step(p, s) ==
    IF s.mode = "class" THEN Member(ClassMember(p, s))
    ELSE IF SourceNext(p, s.i) = <<"|">> THEN Bar(p, s)
    ELSE IF SourceNext(p, s.i) = <<")">> /\ s.stack # <<>> THEN Return(p, s)
    ELSE IF SourceNext(p, s.i) = <<>> /\ s.stack # <<>> THEN error(s)
    ELSE IF SourceNext(p, s.i) \in {<<>>, <<")">>} THEN Done(s, SubWidth(s))
    ELSE Turn(p, s)

\* the parser after at most n steps
RECURSIVE Steps(_, _, _)
Steps(p, s, n) ==
    IF s.st # "ok" \/ s.mode = "done" THEN s
    ELSE IF n = 1 THEN Step(p, s)
    ELSE Steps(p, Steps(p, s, n \div 2), n - n \div 2)

\* parse(str, flags) and compile(p, flags): "ok" when re.compile returns a
\* pattern, "error" when it raises re.error, "other" when it raises another
\* exception: OverflowError for a repeat of MAXREPEAT or more, ValueError
\* of fix_flags for (?a) with (?u), RuntimeError of _sre.compile for a
\* look-behind of 2^31 or more characters where the re module does not
\* know MAXWIDTH.  Every step but the last one reads a character
Outcome(p, s) ==
    IF s.st # "ok" THEN s.st
    ELSE IF {"a", "u"} \subseteq s.flags THEN "other"
    ELSE IF SourceNext(p, s.i) # <<>> THEN "error"
    ELSE IF \E g \in s.grouprefpos : g >= Groups(s) THEN "error"
    ELSE IF ("t" \in s.flags /\ s.repeats) \/ s.variable THEN "error"
    ELSE IF s.wide THEN "other"
    ELSE "ok"

\* re.compile(p) of the re module that caps widths at maxwidth
re_compile(p, maxwidth) ==
    Outcome(p, Steps(p, Tokenizer(1, IF AtLoneBackslash(p, 1) THEN "error"
                                     ELSE "ok", maxwidth),
                     Len(p) + 1))

(***************************************************************************)
(* re.search(pattern, text, re.IGNORECASE), as check_patterns calls it     *)
(* (lines 137 and 146), for the expressions that are made of: literal      *)
(* characters, among them a "{" that opens no quantifier; the escapes      *)
(* \b \B \A \Z \s \S \w \W \d \D \n \t \r \f and an escaped character      *)
(* that is no ASCII letter or digit; the dot, ^ and $; groups ( ) and      *)
(* (?: ) with alternatives; the quantifiers ? * + {m} {m,} {m,n} {,n} {,}, *)
(* greedy or lazy.  Classes, look-around, references, flags, possessive    *)
(* quantifiers and the numeric escapes are outside this section.  An       *)
(* expression is its sequence of characters; a match is found by following *)
(* the set of text positions the expression can have consumed up to, which *)
(* finds a match exactly when the backtracking of the re module does.      *)
(***************************************************************************)
\* the index of the ")" that closes the group whose body starts at i
RECURSIVE GroupEnd(_, _, _)
GroupEnd(p, i, depth) ==
    IF i > Len(p) THEN i
    ELSE IF p[i] = "\\" THEN GroupEnd(p, i + 2, depth)
    ELSE IF p[i] = "(" THEN GroupEnd(p, i + 1, depth + 1)
    ELSE IF p[i] = ")"
         THEN IF depth = 0 THEN i ELSE GroupEnd(p, i + 1, depth - 1)
    ELSE GroupEnd(p, i + 1, depth)

\* the last index of the atom that starts at i: an escape, a group or one
\* character
AtomEnd(p, i) ==
    IF p[i] = "\\" THEN i + 1
    ELSE IF p[i] = "(" THEN GroupEnd(p, i + 1, 0)
    ELSE i

\* the index of the first "|" of p[i..j] outside every group, 0 if none
RECURSIVE TopBar(_, _, _)
TopBar(p, i, j) ==
    IF i > j THEN 0
    ELSE IF p[i] = "|" THEN i
    ELSE TopBar(p, AtomEnd(p, i) + 1, j)

\* the decimal number that starts at index i, and the index after it; a
\* number of 10^8 or more, which no text reaches, is not computed further
RECURSIVE DigitsFrom(_, _, _)
DigitsFrom(p, i, acc) ==
    IF i <= Len(p) /\ p[i] \in Digits
    THEN DigitsFrom(p, i + 1, IF acc >= 100000000 THEN acc
                              ELSE 10 * acc + DigitValue(p[i]))
    ELSE [value |-> acc, next |-> i]

\* a quantifier: its least and, when bounded, its greatest number of
\* repetitions, and its last index in the expression
Quantity(min, bounded, max, last) ==
    [min |-> min, bounded |-> bounded, max |-> max, last |-> last]

\* a "?" after a quantifier makes it lazy, which finds a match in the same
\* texts
Lazy(p, q, j) ==
    IF q.last < j /\ p[q.last + 1] = "?" THEN [q EXCEPT !.last = @ + 1] ELSE q

\* the characters from the "{" at index i (_parser.py lines 660-689): "{}"
\* and a brace that is not followed by digits, at most one comma, digits
\* and "}" are literal characters, the others the quantifiers {m}, {m,},
\* {m,n}, {,n} and {,}
Braces(p, i, j) ==
    LET lo == DigitsFrom(p, i + 1, 0)
        comma == lo.next <= j /\ p[lo.next] = ","
        hi == IF comma THEN DigitsFrom(p, lo.next + 1, 0) ELSE lo
    IN  IF hi.next > j \/ p[hi.next] # "}" \/ hi.next = i + 1
        THEN Quantity(1, TRUE, 1, i - 1)
        ELSE Lazy(p, Quantity(lo.value, ~comma \/ hi.next > lo.next + 1,
                              hi.value, hi.next), j)

\* the quantifier at index i of p[..j]; with none there the atom is taken
\* once and the last index is i - 1
Quantifier(p, i, j) ==
    IF i > j THEN Quantity(1, TRUE, 1, i - 1)
    ELSE CASE p[i] = "?" -> Lazy(p, Quantity(0, TRUE, 1, i), j)
           [] p[i] = "*" -> Lazy(p, Quantity(0, FALSE, 0, i), j)
           [] p[i] = "+" -> Lazy(p, Quantity(1, FALSE, 1, i), j)
           [] p[i] = "{" -> Braces(p, i, j)
           [] OTHER -> Quantity(1, TRUE, 1, i - 1)

\* \b at position s of the text: between a \w character and none
Boundary(t, s) ==
    (s > 0 /\ t[s] \in WordChars) # (s < Len(t) /\ t[s + 1] \in WordChars)

\* the positions after one character of the class, from the positions S
Consume(t, S, class) ==
    {s + 1 : s \in {x \in S : x < Len(t) /\ t[x + 1] \in class}}

\* the positions after one character outside the class
ConsumeOther(t, S, class) ==
    {s + 1 : s \in {x \in S : x < Len(t) /\ t[x + 1] \notin class}}

\* the positions after the character c in either case (re.IGNORECASE)
ConsumeChar(t, S, c) ==
    {s + 1 : s \in {x \in S : x < Len(t) /\ Lower(t[x + 1]) = Lower(c)}}

RECURSIVE MatchAlt(_, _, _, _, _)
RECURSIVE MatchSeq(_, _, _, _, _)
RECURSIVE MatchAtom(_, _, _, _, _)
RECURSIVE Repeat(_, _, _, _, _, _, _, _)

\* the positions after the atom p[i..a], from the positions S; \B matches
\* nowhere in the empty text, the dot every character but the line feed,
\* $ at the end and before a line feed that ends the text
MatchAtom(p, i, a, t, S) ==
    IF p[i] = "\\"
    THEN CASE p[i + 1] = "b" -> {s \in S : Boundary(t, s)}
           [] p[i + 1] = "B" -> {s \in S : t # <<>> /\ ~Boundary(t, s)}
           [] p[i + 1] = "A" -> S \cap {0}
           [] p[i + 1] = "Z" -> S \cap {Len(t)}
           [] p[i + 1] = "s" -> Consume(t, S, Whitespace)
           [] p[i + 1] = "S" -> ConsumeOther(t, S, Whitespace)
           [] p[i + 1] = "w" -> Consume(t, S, WordChars)
           [] p[i + 1] = "W" -> ConsumeOther(t, S, WordChars)
           [] p[i + 1] = "d" -> Consume(t, S, Digits)
           [] p[i + 1] = "D" -> ConsumeOther(t, S, Digits)
           [] p[i + 1] = "n" -> Consume(t, S, {"\n"})
           [] p[i + 1] = "t" -> Consume(t, S, {"\t"})
           [] p[i + 1] = "r" -> Consume(t, S, {"\r"})
           [] p[i + 1] = "f" -> Consume(t, S, {"\f"})
           [] OTHER -> ConsumeChar(t, S, p[i + 1])
    ELSE IF p[i] = "("
    THEN IF i + 2 < a /\ p[i + 1] = "?" /\ p[i + 2] = ":"
         THEN MatchAlt(p, i + 3, a - 1, t, S)
         ELSE MatchAlt(p, i + 1, a - 1, t, S)
    ELSE IF p[i] = "." THEN ConsumeOther(t, S, {"\n"})
    ELSE IF p[i] = "^" THEN S \cap {0}
    ELSE IF p[i] = "$"
    THEN {s \in S : s = Len(t) \/ (s = Len(t) - 1 /\ t[Len(t)] = "\n")}
    ELSE ConsumeChar(t, S, p[i])

\* the positions after q.min to q.max repetitions of the atom: cur are the
\* positions after n repetitions, acc those already counted.  A repetition
\* moves a position forward or leaves it, so the positions after Len(t) + 2
\* repetitions are those after any greater number
Repeat(p, i, a, t, cur, n, q, acc) ==
    LET counted == IF n >= q.min \/ n = Len(t) + 2 THEN acc \cup cur ELSE acc
    IN  IF cur = {} \/ n = Len(t) + 2 \/ (q.bounded /\ n = q.max)
        THEN counted
        ELSE Repeat(p, i, a, t, MatchAtom(p, i, a, t, cur), n + 1, q, counted)

\* the positions after the sequence of atoms p[i..j]
MatchSeq(p, i, j, t, S) ==
    IF i > j \/ S = {} THEN S
    ELSE LET a == AtomEnd(p, i)
             q == Quantifier(p, a + 1, j)
         IN  MatchSeq(p, q.last + 1, j, t, Repeat(p, i, a, t, S, 0, q, {}))

\* the positions after one of the alternatives of p[i..j]
MatchAlt(p, i, j, t, S) ==
    LET bar == TopBar(p, i, j)
    IN  IF bar = 0 THEN MatchSeq(p, i, j, t, S)
        ELSE MatchSeq(p, i, bar - 1, t, S) \cup MatchAlt(p, bar + 1, j, t, S)

\* re.search(pattern, text, re.IGNORECASE)
ReSearch(p, t) == MatchAlt(p, 1, Len(p), t, 0..Len(t)) # {}

\* the default lists of UserConfig.__init__ (lines 39-53)
DefaultMinorPatterns ==
    << <<"\\", "b", "U+0442", "U+043E", "U+0440", "U+0433", "U+043E",
         "U+0432", "(", "U+044B", "U+0439", "|", "U+043E", "U+0433",
         "U+043E", "|", "U+043E", "U+043C", "|", "U+044B", "U+0435",
         "|", "U+044B", "U+0445", ")", "?", "\\", "s", "+", "U+0446",
         "U+0435", "U+043D", "U+0442", "U+0440", "(", "U+0435", "|",
         "U+0430", "|", "U+043E", "U+0432", ")", "?", "\\", "b">>,
       <<"\\", "b", "U+0442", "U+0446", "\\", "b">>,
       <<"\\", "b", "U+0442", "U+0440", "U+0446", "\\", "b">>,
       <<"\\", "b", "U+0441", "U+0435", "U+0442", "(", "U+044C", "|",
         "U+0438", "|", "U+044C", "U+044E", "|", "U+0435", "U+0439",
         "|", "U+044F", "U+043C", "|", "U+044F", "U+043C", "U+0438",
         "|", "U+044F", "U+0445", ")", "\\", "b", "(", "?", ":", "\\",
         "s", "+", "\\", "w", "+", ")", "{", "0", ",", "3", "}", "\\",
         "s", "+", "U+043C", "U+0430", "U+0433", "U+0430", "U+0437",
         "U+0438", "U+043D", "(", "U+043E", "U+0432", "|", "U+0430",
         "|", "U+044B", ")", "?", "\\", "b">>,
       <<"\\", "b", "U+0440", "U+0438", "U+0442", "U+0435", "U+0439",
         "U+043B", "U+0435", "U+0440", "\\", "b">>,
       <<"\\", "b", "U+0441", "U+0443", "U+043F", "U+0435", "U+0440",
         "U+043C", "U+0430", "U+0440", "U+043A", "U+0435", "U+0442",
         "\\", "b">>,
       <<"\\", "b", "U+0433", "U+0438", "U+043F", "U+0435", "U+0440",
         "U+043C", "U+0430", "U+0440", "U+043A", "U+0435", "U+0442",
         "\\", "b">> >>

DefaultMajorPatterns ==
    << <<"\\", "b", "c", "o", "m", "m", "o", "n", "w", "e", "a", "l", "t",
         "h", "\\", "b">>,
       <<"\\", "b", "c", "m", "w", "p", "\\", "b">>,
       <<"\\", "b", "c", "b", "r", "e", "\\", "b">>,
       <<"\\", "b", "i", "n", "v", "e", "n", "t", "i", "v", "e", "\\", "s",
         "+", "r", "e", "t", "a", "i", "l", "\\", "s", "+", "g", "r",
         "o", "u", "p", "\\", "b">> >>

(***************************************************************************)
(* The feed.                                                               *)
(***************************************************************************)
\* the title of Entry1 is the abbreviation the second default minor pattern
\* looks for and its summary the name the third default major pattern looks
\* for, both in capitals
Entry1 == [id |-> "g1", title |-> <<"U+0422", "U+0426">>,
           summary |-> <<"C", "B", "R", "E">>, link |-> "l1",
           published |-> "p1"]
Entry2 == [id |-> "g2", title |-> <<"b">>, summary |-> <<>>, link |-> "l2",
           published |-> "p2"]

\* what feedparser.parse(config.rss_url).entries can be: the feed, or nothing
\* (a transport or parse failure that feedparser reports in bozo leaves
\* entries empty)
FeedResults == {<<Entry1, Entry2>>, <<>>}

\* text = f"{title} {summary}"
EntryText(entry) == entry.title \o <<" ">> \o entry.summary


\* the expressions and thresholds the user sends in Spec
SentPatterns == {<<"b">>}
SentThresholds == {2}


\* the texts the user sends in the dialogs: an expression and a number the
\* handlers take, an expression with blanks around it, expressions
\* re.compile raises re.error for (an open group, a bad escape) and one it
\* raises OverflowError for, numbers below 1, a text that is no number and
\* a number written with an underscore.  The expressions re.compile accepts
\* are in the syntax ReSearch computes
SentExpressions ==
    {<<"b">>, <<"(">>, <<" ", "b">>, <<"\\", "q">>,
     <<"a", "{", "4", "2", "9", "4", "9", "6", "7", "2", "9", "5", "}">>}
SentNumbers == {<<"2">>, <<"0">>, <<"-", "1">>, <<"x">>, <<"1", "_", "0">>}

\* the texts the user sends in SpecEdit: also a repeat of nothing, a range
\* the wrong way round, an expression re.compile raises ValueError for, a
\* look-behind of 2^31 characters, which re.compile accepts where the re
\* module knows MAXWIDTH and raises RuntimeError for where it does not, and
\* a number with whitespace around it
EditExpressions ==
    SentExpressions
    \cup {<<"*">>, <<"a", "{", "2", ",", "1", "}">>,
          <<"(", "?", "a", ")", "(", "?", "u", ")">>,
          <<"(", "?", "<", "=", "a", "{", "2", "1", "4", "7", "4", "8", "3",
            "6", "4", "8", "}", ")">>}
EditNumbers == SentNumbers \cup {<<" ", "3", "\n">>}

\* the labels check_patterns appends for one pattern list, in list order
RECURSIVE Labels(_, _, _)
Labels(kind, pats, text) ==
    IF pats = <<>> THEN <<>>
    ELSE (IF ReSearch(Head(pats), text) THEN << <<kind, Head(pats)>> >> ELSE <<>>)
         \o Labels(kind, Tail(pats), text)

\* lines 153-156 with > in place of >= in the threshold test
VerdictStrict(majors, minors, min_minor_required) ==
    [is_relevant |-> (Len(majors) > 0) \/ (Len(minors) > min_minor_required),
     major_count |-> Len(majors),
     minor_count |-> Len(minors),
     matched_patterns |-> majors \o minors,
     total_count |-> Len(majors) + Len(minors)]

\* lines 133-156 with the two for loops in the other order
VerdictMinorsFirst(majors, minors, min_minor_required) ==
    [is_relevant |-> (Len(majors) > 0) \/ (Len(minors) >= min_minor_required),
     major_count |-> Len(majors),
     minor_count |-> Len(minors),
     matched_patterns |-> minors \o majors,
     total_count |-> Len(majors) + Len(minors)]

\* lines 150-156: the dict check_patterns returns for the labels its two
\* loops appended
Verdict(majors, minors, min_minor_required) ==
    [is_relevant |-> (Len(majors) > 0) \/ (Len(minors) >= min_minor_required),
     major_count |-> Len(majors),
     minor_count |-> Len(minors),
     matched_patterns |-> majors \o minors,
     total_count |-> Len(majors) + Len(minors)]

\* RSSBot.check_patterns without the return of lines 130-131
check_patterns_unguarded(text, config) ==
    Verdict(Labels("MAJOR: ", config.major_patterns, LowerText(text)),
            Labels("MINOR: ", config.minor_patterns, LowerText(text)),
            config.min_minor_required)

\* RSSBot.check_patterns
check_patterns(text, config) ==
    IF text = <<>>
    THEN [is_relevant |-> FALSE, major_count |-> 0, minor_count |-> 0,
          matched_patterns |-> <<>>]
    ELSE Verdict(Labels("MAJOR: ", config.major_patterns, LowerText(text)),
                 Labels("MINOR: ", config.minor_patterns, LowerText(text)),
                 config.min_minor_required)


(***************************************************************************)
(* The state.                                                              *)
(***************************************************************************)
VARIABLES
    heap,           \* the UserConfig objects ever constructed, by reference
    user_configs,   \* RSSBot.user_configs: user -> reference (0: no key)
    parsing_tasks,  \* RSSBot.parsing_tasks: user -> task (0: no key)
    tasks,          \* the parsing_loop tasks ever created, by handle
    calls,          \* the handler coroutines, in order of arrival
    users_tbl,      \* table users: user -> <<>> or <<config dict>>
    user_news,      \* table user_news: the rows, in order of insertion
    news_seq,       \* table sqlite_sequence: the last id AUTOINCREMENT gave
                    \* out for user_news
    outbox,         \* the messages bot.send_message delivered
    clock,          \* datetime.now(), a logical clock
    budget,         \* commands each user may still send
    cycles_left,    \* poll cycles that may still begin
    boots_left,     \* times the process may still be started again
    stop_done,      \* history: stop_parsing_for_user completed for the user
                    \* and no start_parsing_for_user was called since that
                    \* stop was called
    changed,        \* history: the ruleset a pattern or threshold change left,
                    \* when the change was sent with no handler of the user
                    \* in flight, has completed, and no command followed
    cp,             \* the call of check_patterns SpecClassify makes
    dialog,         \* user -> the FSM state and data (selected_minors,
                    \* selected_majors) MemoryStorage holds and, per list,
                    \* the number of toggle buttons of the longest keyboard
                    \* the bot has shown the user
    update          \* the last message or callback of the pattern dialogs,
                    \* its number and the answer the handler gave

vars == <<heap, user_configs, parsing_tasks, tasks, calls, users_tbl,
          user_news, news_seq, outbox, clock, budget, cycles_left, boots_left,
          stop_done, changed, cp, dialog, update>>

\* the process's memory, the database, the outside world
mem == <<heap, user_configs, parsing_tasks, tasks, calls>>
db == <<users_tbl, user_news, news_seq>>

Users == {1, 2}

RSS_URL == "https://www.kommersant.ru/RSS/news.xml"

\* UserConfig.__init__; last_checked 0 is None
UserConfig(user_id) ==
    [user_id |-> user_id,
     is_parsing |-> FALSE,
     minor_patterns |-> DefaultMinorPatterns,
     major_patterns |-> DefaultMajorPatterns,
     min_minor_required |-> DEFAULT_MIN_MINOR,
     rss_url |-> RSS_URL,
     last_checked |-> 0]

\* datetime.isoformat / datetime.fromisoformat; JSON null for None
isoformat(t) == <<"iso", t>>
JsonNull == <<"null", 0>>
fromisoformat(s) == IF s[1] = "iso" THEN s[2] ELSE 0

\* UserConfig.to_dict (json.dumps copies the lists)
to_dict(config) ==
    [user_id |-> config.user_id,
     is_parsing |-> config.is_parsing,
     minor_patterns |-> config.minor_patterns,
     major_patterns |-> config.major_patterns,
     min_minor_required |-> config.min_minor_required,
     rss_url |-> config.rss_url,
     last_checked |-> IF config.last_checked # 0
                      THEN isoformat(config.last_checked) ELSE JsonNull]

\* UserConfig.from_dict
from_dict(data) ==
    [user_id |-> data.user_id,
     is_parsing |-> data.is_parsing,
     minor_patterns |-> data.minor_patterns,
     major_patterns |-> data.major_patterns,
     min_minor_required |-> data.min_minor_required,
     rss_url |-> data.rss_url,
     last_checked |-> IF data.last_checked # JsonNull
                      THEN fromisoformat(data.last_checked) ELSE 0]

\* the ruleset of a config object: what check_patterns reads
Ruleset(config) ==
    [minor_patterns |-> config.minor_patterns,
     major_patterns |-> config.major_patterns,
     min_minor_required |-> config.min_minor_required]

\* RSSBot.get_config with one UserConfig object for every user: the first
\* that was constructed
get_config_shared(user_id, h, uc) ==
    [ref |-> 1,
     heap |-> IF h = <<>> THEN <<UserConfig(user_id)>> ELSE h,
     user_configs |-> [uc EXCEPT ![user_id] = 1]]

\* RSSBot.get_config: the reference, and the heap and dict after the call
get_config(user_id, h, uc) ==
    IF uc[user_id] = 0
    THEN [ref |-> Len(h) + 1,
          heap |-> Append(h, UserConfig(user_id)),
          user_configs |-> [uc EXCEPT ![user_id] = Len(h) + 1]]
    ELSE [ref |-> uc[user_id], heap |-> h, user_configs |-> uc]

\* the config get_config returns for the user
ConfigOf(user_id, h, uc) ==
    LET g == get_config(user_id, h, uc) IN g.heap[g.ref]

(***************************************************************************)
(* The poll task: parsing_loop of start_parsing_for_user.  A task record   *)
(* holds the closure's config reference, the await the coroutine is        *)
(* suspended at (pc), and its locals.  An optional local is <<>> or <<v>>. *)
(*   new        created by asyncio.create_task, not yet run                *)
(*   insert     in Database.save_news_item                                 *)
(*   send       in bot.send_message                                        *)
(*   mark       in Database.mark_as_sent                                   *)
(*   pause      in asyncio.sleep(0.1)                                      *)
(*   save_conn  in Database.save_user_config, before json.dumps            *)
(*   save_write in Database.save_user_config, before the commit            *)
(*   save_close in Database.save_user_config, at the close of the          *)
(*              connection                                                 *)
(*   sleep      in asyncio.sleep(1) of the interval loop                   *)
(*   done, cancelled                                                       *)
(* cycle_rules is a history field: the ruleset of the task's config when   *)
(* the current cycle began.  So are cycle_clock, the clock when the task's *)
(* current or last cycle began, and fault, the call of the task that       *)
(* raised last ("none", "fetch", "send", "insert", "mark", "save").        *)
(***************************************************************************)
NewTask(user_id, config) ==
    [user_id |-> user_id, config |-> config, pc |-> "new",
     entries |-> <<>>, idx |-> 0, pattern_info |-> <<>>, news_item |-> <<>>,
     snap |-> <<>>, cycle_rules |-> <<>>, cycle_clock |-> 0, fault |-> "none"]

\* a task that ended: state is "done" (the loop was left) or "cancelled"
Finished(tk, state) ==
    [NewTask(tk.user_id, 0) EXCEPT !.pc = state]

Alive(tk) == tk.pc \notin {"done", "cancelled"}

\* lines 371-374: the task at the await entry i brings it to, given what
\* check_patterns returned for the entry
AtEntry(tk, i, pattern_info) ==
    [tk EXCEPT !.idx = i,
               !.pattern_info = <<pattern_info>>,
               !.news_item = <<>>,
               !.pc = IF pattern_info.is_relevant THEN "insert" ELSE "pause"]

\* lines 363-382: the for loop from entry i on, up to the next await.
\* Gives the task, the heap and the clock at that await.
RunEntries(tk, i, h, clk) ==
    IF i <= Len(tk.entries) /\ h[tk.config].is_parsing
    THEN [task |-> AtEntry(tk, i, check_patterns(EntryText(tk.entries[i]),
                                                 h[tk.config])),
          heap |-> h, clock |-> clk]
    ELSE [task |-> [tk EXCEPT !.idx = 0, !.pattern_info = <<>>,
                              !.news_item = <<>>, !.entries = <<>>,
                              !.pc = "save_conn"],
          heap |-> [h EXCEPT ![tk.config].last_checked = clk + 1],
          clock |-> clk + 1]

\* the task t goes on to the await run brought it to
Resume(t, run) ==
    /\ tasks' = [tasks EXCEPT ![t] = run.task]
    /\ heap' = run.heap
    /\ clock' = run.clock

\* lines 387-391 followed by the while test of line 355, when the flag is
\* cleared: the interval loop breaks and the while loop ends
RunSleep(tk, h) ==
    IF h[tk.config].is_parsing
    THEN [tk EXCEPT !.pc = "sleep", !.snap = <<>>, !.cycle_rules = <<>>]
    ELSE Finished(tk, "done")

\* '; '.join(matched_patterns)
RECURSIVE Join(_)
Join(labels) ==
    IF labels = <<>> THEN <<>>
    ELSE IF Len(labels) = 1 THEN Head(labels)
    ELSE Head(labels) \o <<"; ">> \o Join(Tail(labels))

\* the rows of user_news with this user_id and guid
RowsOf(news, user_id, guid) ==
    {i \in DOMAIN news : news[i].user_id = user_id /\ news[i].guid = guid}

\* INSERT OR REPLACE in place of INSERT OR IGNORE: a duplicate overwrites
InsertOrReplace(news, seq, user_id, entry, pattern_info) ==
    LET new == [id |-> seq + 1, user_id |-> user_id, guid |-> entry.id,
                title |-> entry.title, summary |-> entry.summary,
                link |-> entry.link, published |-> entry.published,
                is_relevant |-> TRUE,
                major_count |-> pattern_info.major_count,
                minor_count |-> pattern_info.minor_count,
                sent_to_user |-> FALSE,
                matched_patterns |-> Join(pattern_info.matched_patterns)]
    IN  IF RowsOf(news, user_id, entry.id) = {}
        THEN Append(news, new)
        ELSE [i \in DOMAIN news |->
                 IF i \in RowsOf(news, user_id, entry.id)
                 THEN new ELSE news[i]]

\* lines 245-263: INSERT OR IGNORE under UNIQUE(user_id, guid); seq is the
\* last id given out, and the new row takes the next one
InsertOrIgnore(news, seq, user_id, entry, pattern_info) ==
    IF RowsOf(news, user_id, entry.id) # {}
    THEN news
    ELSE Append(news,
           [id |-> seq + 1, user_id |-> user_id, guid |-> entry.id,
            title |-> entry.title, summary |-> entry.summary,
            link |-> entry.link, published |-> entry.published,
            is_relevant |-> TRUE,
            major_count |-> pattern_info.major_count,
            minor_count |-> pattern_info.minor_count,
            sent_to_user |-> FALSE,
            matched_patterns |-> Join(pattern_info.matched_patterns)])

\* lines 266-286: SELECT id ... and the dict save_news_item returns
\* (<<>> is None)
SelectNewsItem(news, user_id, entry, pattern_info) ==
    LET found == RowsOf(news, user_id, entry.id)
    IN  IF found = {} THEN <<>>
        ELSE << [id |-> news[CHOOSE i \in found : TRUE].id,
                 guid |-> entry.id,
                 title |-> entry.title,
                 summary |-> entry.summary,
                 link |-> entry.link,
                 published |-> entry.published,
                 major_count |-> pattern_info.major_count,
                 minor_count |-> pattern_info.minor_count,
                 matched_patterns |-> pattern_info.matched_patterns] >>


\* SELECT SUM(column): <<>> is NULL, the sum over no row
RECURSIVE SqlSum(_, _, _)
SqlSum(news, rows, column) ==
    IF rows = {} THEN <<>>
    ELSE LET i == CHOOSE i \in rows : TRUE
             rest == SqlSum(news, rows \ {i}, column)
         IN  << news[i][column] + (IF rest = <<>> THEN 0 ELSE rest[1]) >>

\* `x if pattern_stats and x else 0`
OrZero(x) == IF x # <<>> /\ x[1] # 0 THEN x[1] ELSE 0

\* the rows of user_news with this user_id
RowsOfUser(news, user_id) == {i \in DOMAIN news : news[i].user_id = user_id}

\* lines 305-310: SELECT COUNT(*) ... WHERE user_id = ?
CountTotal(news, user_id) == Cardinality(RowsOfUser(news, user_id))

\* lines 312-317: SELECT COUNT(*) ... WHERE user_id = ? AND is_relevant = 1
CountRelevant(news, user_id) ==
    Cardinality({i \in RowsOfUser(news, user_id) : news[i].is_relevant})

\* lines 319-324: SELECT COUNT(*) ... WHERE user_id = ? AND sent_to_user = 1
CountSent(news, user_id) ==
    Cardinality({i \in RowsOfUser(news, user_id) : news[i].sent_to_user})

\* lines 326-330: SELECT SUM(major_count), SUM(minor_count) ... WHERE
\* user_id = ?, over the rows of the user whether relevant or not
SelectSums(news, user_id) ==
    [major_count |-> SqlSum(news, RowsOfUser(news, user_id), "major_count"),
     minor_count |-> SqlSum(news, RowsOfUser(news, user_id), "minor_count")]

(***************************************************************************)
(* The steps of a poll task, one per await.                                *)
(***************************************************************************)
\* the task runs from creation or from its last asyncio.sleep(1): the while
\* test, feedparser.parse (synchronous) and the for loop up to its first
\* await.  While the flag is set the interval loop only sleeps again, and
\* the number of ticks is left open.
TaskLoop(t) ==
    /\ tasks[t].pc \in {"new", "sleep"}
    /\ LET tk == tasks[t] IN
       IF heap[tk.config].is_parsing
       THEN /\ cycles_left > 0
            /\ cycles_left' = cycles_left - 1
            /\ \E entries \in FeedResults :
                 Resume(t, RunEntries(
                               [tk EXCEPT !.entries = entries,
                                          !.cycle_clock = clock,
                                          !.cycle_rules = <<Ruleset(heap[tk.config])>>],
                               1, heap, clock))
       ELSE /\ tasks' = [tasks EXCEPT ![t] = Finished(tk, "done")]
            /\ UNCHANGED <<heap, clock, cycles_left>>
    /\ UNCHANGED <<user_configs, parsing_tasks, calls, db, outbox, budget,
                   boots_left, stop_done,
                   changed, cp, dialog, update>>

\* Database.save_news_item, then send_news_to_user up to bot.send_message.
\* AUTOINCREMENT gives out an id for the INSERT, ignored or not.
TaskInsert(t) ==
    /\ tasks[t].pc = "insert"
    /\ LET tk == tasks[t]
           entry == tk.entries[tk.idx]
           news == InsertOrIgnore(user_news, news_seq, tk.user_id, entry,
                                  tk.pattern_info[1])
           news_item == SelectNewsItem(news, tk.user_id, entry, tk.pattern_info[1])
       IN  /\ user_news' = news
           /\ news_seq' = news_seq + 1
           /\ tasks' = [tasks EXCEPT ![t] =
                  [tk EXCEPT !.news_item = news_item,
                             !.pc = IF news_item # <<>> THEN "send" ELSE "pause"]]
    /\ UNCHANGED <<heap, user_configs, parsing_tasks, calls, users_tbl, outbox,
                   clock, budget, cycles_left, boots_left, stop_done,
                   changed, cp, dialog, update>>

\* bot.send_message raises and the exception leaves send_news_to_user: the
\* except clause of parsing_loop ends the cycle
SendFailedAborts(tk) ==
    [tk EXCEPT !.pc = "sleep", !.fault = "send", !.entries = <<>>, !.idx = 0,
               !.pattern_info = <<>>, !.news_item = <<>>, !.cycle_rules = <<>>]

\* lines 451-452: bot.send_message raises, send_news_to_user logs and
\* returns, and parsing_loop goes on to Database.mark_as_sent
SendFailed(tk) == [tk EXCEPT !.pc = "mark", !.fault = "send"]

\* bot.send_message delivers, or raises and send_news_to_user swallows it;
\* then Database.mark_as_sent is called
TaskSend(t) ==
    /\ tasks[t].pc = "send"
    /\ \/ /\ outbox' = Append(outbox, [chat_id |-> tasks[t].user_id,
                                       guid |-> tasks[t].news_item[1].guid])
          /\ tasks' = [tasks EXCEPT ![t].pc = "mark"]
       \/ /\ outbox' = outbox
          /\ tasks' = [tasks EXCEPT ![t] = SendFailed(tasks[t])]
    /\ UNCHANGED <<heap, user_configs, parsing_tasks, calls, db, clock, budget,
                   cycles_left, boots_left, stop_done,
                   changed, cp, dialog, update>>

\* Database.mark_as_sent, then asyncio.sleep(0.1)
TaskMark(t) ==
    /\ tasks[t].pc = "mark"
    /\ user_news' = [i \in DOMAIN user_news |->
                        IF user_news[i].id = tasks[t].news_item[1].id
                        THEN [user_news[i] EXCEPT !.sent_to_user = TRUE]
                        ELSE user_news[i]]
    /\ tasks' = [tasks EXCEPT ![t].pc = "pause"]
    /\ UNCHANGED <<heap, user_configs, parsing_tasks, calls, users_tbl, news_seq,
                   outbox,
                   clock, budget, cycles_left, boots_left, stop_done,
                   changed, cp, dialog, update>>

\* after asyncio.sleep(0.1): the next entry, or the end of the cycle
TaskPause(t) ==
    /\ tasks[t].pc = "pause"
    /\ Resume(t, RunEntries(tasks[t], tasks[t].idx + 1, heap, clock))
    /\ UNCHANGED <<user_configs, parsing_tasks, calls, db, outbox, budget,
                   cycles_left, boots_left, stop_done,
                   changed, cp, dialog, update>>

\* Database.save_user_config of line 382: the connection is open and
\* json.dumps(config.to_dict()) is evaluated
TaskSaveConn(t) ==
    /\ tasks[t].pc = "save_conn"
    /\ tasks' = [tasks EXCEPT ![t].snap = <<to_dict(heap[tasks[t].config])>>,
                              ![t].pc = "save_write"]
    /\ UNCHANGED <<heap, user_configs, parsing_tasks, calls, db, outbox, clock,
                   budget, cycles_left, boots_left, stop_done,
                   changed, cp, dialog, update>>

\* INSERT OR REPLACE INTO users and the commit
TaskSaveWrite(t) ==
    /\ tasks[t].pc = "save_write"
    /\ users_tbl' = [users_tbl EXCEPT ![tasks[t].user_id] = tasks[t].snap]
    /\ tasks' = [tasks EXCEPT ![t].pc = "save_close"]
    /\ UNCHANGED <<heap, user_configs, parsing_tasks, calls, user_news, news_seq,
                   outbox,
                   clock, budget, cycles_left, boots_left, stop_done,
                   changed, cp, dialog, update>>

\* save_user_config of line 382 has returned; then the interval loop
TaskSaveClose(t) ==
    /\ tasks[t].pc = "save_close"
    /\ tasks' = [tasks EXCEPT ![t] = RunSleep(tasks[t], heap)]
    /\ UNCHANGED <<heap, user_configs, parsing_tasks, calls, db, outbox,
                   clock, budget, cycles_left, boots_left, stop_done,
                   changed, cp, dialog, update>>


(***************************************************************************)
(* The steps of a poll task in which the database raises.                  *)
(***************************************************************************)
\* an exception that ends the task, as if parsing_loop had no except clause
RaisedEndsTask(tk, h, fault) == Finished(tk, "done")

\* lines 384-391: an exception raised inside the try of parsing_loop is
\* logged, the rest of the cycle is skipped and the interval loop begins
Raised(tk, h, fault) ==
    IF h[tk.config].is_parsing
    THEN [tk EXCEPT !.pc = "sleep", !.fault = fault, !.entries = <<>>,
                    !.idx = 0, !.pattern_info = <<>>, !.news_item = <<>>,
                    !.snap = <<>>, !.cycle_rules = <<>>]
    ELSE Finished(tk, "done")

\* feedparser.parse raises (line 359): nothing of the cycle is done, the
\* except clause of line 384 logs and the interval loop begins
TaskFetchFails(t) ==
    /\ tasks[t].pc \in {"new", "sleep"}
    /\ heap[tasks[t].config].is_parsing
    /\ cycles_left > 0
    /\ cycles_left' = cycles_left - 1
    /\ tasks' = [tasks EXCEPT ![t] =
                    Raised([@ EXCEPT !.cycle_clock = clock], heap, "fetch")]
    /\ UNCHANGED <<heap, user_configs, parsing_tasks, calls, db, outbox,
                   clock, budget, boots_left, stop_done,
                   changed, cp, dialog, update>>

\* Database.save_news_item raises inside its own try: lines 287-289 log and
\* return None, and parsing_loop goes on to asyncio.sleep(0.1).  committed
\* tells where: at the SELECT or the fetchone of lines 266-270, after the
\* commit of line 263, so that the INSERT stays; or at the connect, the
\* INSERT or the commit, so that nothing is written
TaskInsertFails(t, committed) ==
    /\ tasks[t].pc = "insert"
    /\ tasks' = [tasks EXCEPT ![t].pc = "pause", ![t].fault = "insert"]
    /\ IF committed
       THEN /\ user_news' = InsertOrIgnore(user_news, news_seq,
                                           tasks[t].user_id,
                                           tasks[t].entries[tasks[t].idx],
                                           tasks[t].pattern_info[1])
            /\ news_seq' = news_seq + 1
       ELSE UNCHANGED <<user_news, news_seq>>
    /\ UNCHANGED <<heap, user_configs, parsing_tasks, calls, users_tbl, outbox,
                   clock, budget, cycles_left, boots_left, stop_done,
                   changed, cp, dialog, update>>

\* Database.mark_as_sent raises
TaskMarkFails(t) ==
    /\ tasks[t].pc = "mark"
    /\ tasks' = [tasks EXCEPT ![t] = Raised(tasks[t], heap, "mark")]
    /\ UNCHANGED <<heap, user_configs, parsing_tasks, calls, db, outbox,
                   clock, budget, cycles_left, boots_left, stop_done,
                   changed, cp, dialog, update>>

\* Database.save_user_config of line 382 raises, before anything is written
TaskSaveFails(t) ==
    /\ tasks[t].pc \in {"save_conn", "save_write"}
    /\ tasks' = [tasks EXCEPT ![t] = Raised(tasks[t], heap, "save")]
    /\ UNCHANGED <<heap, user_configs, parsing_tasks, calls, db, outbox,
                   clock, budget, cycles_left, boots_left, stop_done,
                   changed, cp, dialog, update>>


(***************************************************************************)
(* The pattern dialogs: what the dispatcher keeps for a user between two   *)
(* updates, and the update a handler is called with.                       *)
(***************************************************************************)
ListKinds == {"minor", "major"}

\* no FSM state ("none" is None), no FSM data and no keyboard shown
NoDialog ==
    [state |-> "none",
     selected |-> [kind \in ListKinds |-> <<>>],
     shown |-> [kind \in ListKinds |-> 0]]

\* FSMContext.clear(): the state and the data are dropped, the messages in
\* the chat stay
StateClear(d) ==
    [d EXCEPT !.state = "none", !.selected = [kind \in ListKinds |-> <<>>]]

\* PatternStates.adding_minor and PatternStates.adding_major
AddingState(kind) == IF kind = "minor" THEN "adding_minor" ELSE "adding_major"

NoUpdate ==
    [seq |-> 0, handler |-> "none", user_id |-> 0, kind |-> "none",
     text |-> <<>>, answer |-> "none"]

\* the update number seq + 1, handled by handler with this answer
Update(handler, user_id, kind, text, answer) ==
    [seq |-> update.seq + 1, handler |-> handler, user_id |-> user_id,
     kind |-> kind, text |-> text, answer |-> answer]

(***************************************************************************)
(* The command handlers.  A call record is a handler coroutine suspended   *)
(* at an await: its kind, its user, the await (pc), its local `config`     *)
(* reference and the JSON text save_user_config has built (snap).          *)
(*   load        cmd_start, in Database.load_user_config, before the       *)
(*               SELECT                                                    *)
(*   load_close  in Database.load_user_config, at the close of its         *)
(*               connection; loaded is the config it returns, <<>> for None*)
(*   save_conn   in Database.save_user_config, before json.dumps           *)
(*   save_write  in Database.save_user_config, before the commit           *)
(*   save_close  in Database.save_user_config, at the close of its         *)
(*               connection, or in the answer that follows the save        *)
(*   edit_text   in callback.message.edit_text, before state.set_state or  *)
(*               state.update_data                                         *)
(*   count_total, count_relevant, count_sent, sum_counts                   *)
(*               show_stats, in Database.get_user_stats, before the first, *)
(*               second, third and fourth SELECT; stats holds what the     *)
(*               SELECTs before have returned                              *)
(*   get_stats   show_stats, after Database.get_user_stats has returned    *)
(*               the dict stats                                            *)
(* A handler that returns is removed from calls.  overtaken is a history   *)
(* field: start_parsing_for_user was called for the user while this call   *)
(* was in flight; so is alone: no handler of the user was in flight when   *)
(* the call arrived and the user has sent no command since.                *)
(***************************************************************************)
NoStats ==
    [total |-> 0, relevant |-> 0, sent |-> 0, major_count |-> 0,
     minor_count |-> 0]

Call(kind, user_id, pc, config) ==
    [kind |-> kind, user_id |-> user_id, pc |-> pc, config |-> config,
     loaded |-> <<>>, snap |-> <<>>, stats |-> NoStats, overtaken |-> FALSE,
     alone |-> FALSE]

\* the calls in flight, those of the user marked as overtaken by a start
Overtake(cs, user_id) ==
    [k \in DOMAIN cs |->
        IF cs[k].user_id = user_id THEN [cs[k] EXCEPT !.overtaken = TRUE]
        ELSE cs[k]]

\* the calls in flight when the user sends a command
Disturb(cs, user_id) ==
    [k \in DOMAIN cs |->
        IF cs[k].user_id = user_id THEN [cs[k] EXCEPT !.alone = FALSE]
        ELSE cs[k]]

\* no handler of the user is in flight
NoCallOf(cs, user_id) == \A k \in DOMAIN cs : cs[k].user_id # user_id

\* the history variable changed when the user sends a command
Forget(user_id) == changed' = [changed EXCEPT ![user_id] = <<>>]

RemoveAt(seq, k) == [i \in 1..(Len(seq) - 1) |-> IF i < k THEN seq[i] ELSE seq[i + 1]]

\* asyncio.Task.cancel(): the coroutine gets CancelledError at the await it
\* is suspended at, which no except clause of parsing_loop catches
Cancel(tk) == IF Alive(tk) THEN Finished(tk, "cancelled") ELSE tk

\* line 345: start_parsing_for_user returns at once when the flag is set
StartReturns(config) == config.is_parsing

\* start_parsing_handler, and start_parsing_for_user up to its await
StartParsing(u) ==
    /\ budget[u] > 0
    /\ budget' = [budget EXCEPT ![u] = @ - 1]
    /\ LET g == get_config(u, heap, user_configs) IN
       /\ user_configs' = g.user_configs
       /\ IF g.heap[g.ref].is_parsing \/ StartReturns(g.heap[g.ref])
          THEN /\ heap' = g.heap
               /\ calls' = Disturb(calls, u)
               /\ UNCHANGED stop_done
          ELSE /\ heap' = [g.heap EXCEPT ![g.ref].is_parsing = TRUE]
               /\ calls' = Append(Disturb(Overtake(calls, u), u),
                                  Call("start", u, "save_conn", g.ref))
               /\ stop_done' = [stop_done EXCEPT ![u] = FALSE]
    /\ Forget(u)
    /\ UNCHANGED <<parsing_tasks, tasks, db, outbox, clock, cycles_left, boots_left, cp, dialog, update>>

\* stop_parsing_handler without the return of lines 957-960
StopParsingUnguarded(u) ==
    /\ budget[u] > 0
    /\ budget' = [budget EXCEPT ![u] = @ - 1]
    /\ LET g == get_config(u, heap, user_configs) IN
       /\ user_configs' = g.user_configs
       /\ heap' = [g.heap EXCEPT ![g.ref].is_parsing = FALSE]
       /\ IF parsing_tasks[u] # 0
          THEN /\ tasks' = [tasks EXCEPT ![parsing_tasks[u]] = Cancel(@)]
               /\ parsing_tasks' = [parsing_tasks EXCEPT ![u] = 0]
          ELSE UNCHANGED <<tasks, parsing_tasks>>
       /\ calls' = Append(Disturb(calls, u),
                          Call("stop", u, "save_conn", g.ref))
    /\ Forget(u)
    /\ UNCHANGED <<db, outbox, clock, cycles_left, boots_left, stop_done, cp, dialog, update>>

\* stop_parsing_handler, and stop_parsing_for_user up to its await
StopParsing(u) ==
    /\ budget[u] > 0
    /\ budget' = [budget EXCEPT ![u] = @ - 1]
    /\ LET g == get_config(u, heap, user_configs) IN
       /\ user_configs' = g.user_configs
       /\ IF ~g.heap[g.ref].is_parsing
          THEN /\ heap' = g.heap
               /\ calls' = Disturb(calls, u)
               /\ UNCHANGED <<tasks, parsing_tasks>>
          ELSE /\ heap' = [g.heap EXCEPT ![g.ref].is_parsing = FALSE]
               /\ IF parsing_tasks[u] # 0
                  THEN /\ tasks' = [tasks EXCEPT ![parsing_tasks[u]] = Cancel(@)]
                       /\ parsing_tasks' = [parsing_tasks EXCEPT ![u] = 0]
                  ELSE UNCHANGED <<tasks, parsing_tasks>>
               /\ calls' = Append(Disturb(calls, u),
                                  Call("stop", u, "save_conn", g.ref))
    /\ Forget(u)
    /\ UNCHANGED <<db, outbox, clock, cycles_left, boots_left, stop_done, cp, dialog, update>>

\* cmd_start up to Database.load_user_config
CmdStart(u) ==
    /\ budget[u] > 0
    /\ budget' = [budget EXCEPT ![u] = @ - 1]
    /\ LET g == get_config(u, heap, user_configs) IN
       /\ user_configs' = g.user_configs
       /\ heap' = g.heap
       /\ calls' = Append(Disturb(calls, u),
                          Call("cmd_start", u, "load", g.ref))
    /\ Forget(u)
    /\ UNCHANGED <<parsing_tasks, tasks, db, outbox, clock, cycles_left, boots_left,
                   stop_done, cp, dialog, update>>

\* Database.load_user_config, lines 212-220: the SELECT, fetchone and
\* UserConfig.from_dict of the row, when there is one
CmdStartLoad(k) ==
    /\ calls[k].pc = "load"
    /\ LET u == calls[k].user_id IN
       calls' = [calls EXCEPT
                   ![k].loaded = IF users_tbl[u] # <<>>
                                 THEN <<from_dict(users_tbl[u][1])>> ELSE <<>>,
                   ![k].pc = "load_close"]
    /\ UNCHANGED <<heap, user_configs, parsing_tasks, tasks, db, outbox, clock,
                   budget, cycles_left, boots_left, stop_done,
                   changed, cp, dialog, update>>

\* cmd_start, lines 491-495, after load_user_config has returned: the saved
\* config, when there is one, replaces the user's config object
CmdStartInstall(k) ==
    /\ calls[k].pc = "load_close"
    /\ LET u == calls[k].user_id IN
       IF calls[k].loaded # <<>>
       THEN /\ heap' = Append(heap, calls[k].loaded[1])
            /\ user_configs' = [user_configs EXCEPT ![u] = Len(heap) + 1]
            /\ calls' = [calls EXCEPT ![k].config = Len(heap) + 1,
                                      ![k].loaded = <<>>,
                                      ![k].pc = "save_conn"]
       ELSE /\ calls' = [calls EXCEPT ![k].pc = "save_conn"]
            /\ UNCHANGED <<heap, user_configs>>
    /\ UNCHANGED <<parsing_tasks, tasks, db, outbox, clock, budget, cycles_left,
                   boots_left, stop_done,
                   changed, cp, dialog, update>>

\* process_minor_pattern with an expression that compiles
AddMinor(u, pattern) ==
    /\ budget[u] > 0
    /\ dialog[u].state = "adding_minor"
    /\ budget' = [budget EXCEPT ![u] = @ - 1]
    /\ LET g == get_config(u, heap, user_configs) IN
       /\ user_configs' = g.user_configs
       /\ heap' = [g.heap EXCEPT ![g.ref].minor_patterns = Append(@, pattern)]
       /\ calls' = Append(Disturb(calls, u),
                          [Call("add_minor", u, "save_conn", g.ref)
                              EXCEPT !.alone = NoCallOf(calls, u)])
    /\ Forget(u)
    /\ UNCHANGED <<parsing_tasks, tasks, db, outbox, clock, cycles_left, boots_left,
                   stop_done, cp, dialog, update>>

\* process_threshold with a number >= 1
SetThreshold(u, threshold) ==
    /\ budget[u] > 0
    /\ dialog[u].state = "setting_threshold"
    /\ threshold >= 1
    /\ budget' = [budget EXCEPT ![u] = @ - 1]
    /\ LET g == get_config(u, heap, user_configs) IN
       /\ user_configs' = g.user_configs
       /\ heap' = [g.heap EXCEPT ![g.ref].min_minor_required = threshold]
       /\ calls' = Append(Disturb(calls, u),
                          [Call("threshold", u, "save_conn", g.ref)
                              EXCEPT !.alone = NoCallOf(calls, u)])
    /\ Forget(u)
    /\ UNCHANGED <<parsing_tasks, tasks, db, outbox, clock, cycles_left, boots_left,
                   stop_done, cp, dialog, update>>

(***************************************************************************)
(* The handlers of the pattern dialogs, whole: what they do with every     *)
(* message or callback.  A handler that answers and returns leaves no call *)
(* record; one that goes on to save_user_config has not answered yet       *)
(* (answer "none").                                                        *)
(***************************************************************************)
CompilesAnything(p, maxwidth) == TRUE

\* lines 591-592: re.compile(pattern) returns
Compiles(p, maxwidth) == re_compile(p, maxwidth) = "ok"

AcceptsThresholdFromZero(threshold) == ~(threshold < 0)

\* lines 868-869: process_threshold accepts the number
AcceptsThreshold(threshold) == ~(threshold < 1)

\* lines 866-870: the threshold process_threshold reads from the text of
\* the message, <<>> when it rejects it
ReadThreshold(text) ==
    LET v == IF text = <<>> THEN <<0>> ELSE int(Strip(text))
    IN  IF v # <<>> /\ AcceptsThreshold(v[1]) THEN v ELSE <<>>

PatternList(config, kind) ==
    IF kind = "minor" THEN config.minor_patterns ELSE config.major_patterns

WithPatternList(config, kind, list) ==
    IF kind = "minor" THEN [config EXCEPT !.minor_patterns = list]
    ELSE [config EXCEPT !.major_patterns = list]

Max(a, b) == IF a >= b THEN a ELSE b

\* the selection in the order of the toggles, as if the loop did not sort
Unsorted(selected) == selected

\* sorted(selected, reverse=True)
RECURSIVE SortedReverse(_)
SortedReverse(selected) ==
    IF selected = <<>> THEN <<>>
    ELSE LET k == CHOOSE k \in DOMAIN selected :
                      \A j \in DOMAIN selected : selected[j] <= selected[k]
         IN  <<selected[k]>> \o SortedReverse(RemoveAt(selected, k))

\* lines 728-730 and 832-834: the list after the loop over the indexes;
\* list.pop(index) of Python counts from 0
RECURSIVE PopSelected(_, _)
PopSelected(list, indexes) ==
    IF indexes = <<>> THEN list
    ELSE PopSelected(IF Head(indexes) < Len(list)
                     THEN RemoveAt(list, Head(indexes) + 1)
                     ELSE list,
                     Tail(indexes))

\* lines 684-687 and 790-793: the selection after a toggle of the index
Toggled(selected, index) ==
    IF \E k \in DOMAIN selected : selected[k] = index
    THEN RemoveAt(selected, CHOOSE k \in DOMAIN selected : selected[k] = index)
    ELSE Append(selected, index)

\* the toggle buttons the user presses in SpecDelete and in SpecForm: the
\* first and the last two of the default minor list
DeleteButtons == {0, 5, 6}
FormButtons == {0, 6}

\* the callbacks whose handlers only read the user's config
ConfigPages == {"menu_patterns", "show_all", "status"}

\* menu_patterns, show_all_patterns and show_status: get_config, which
\* creates the default config of a user who has none, and the reply
ShowConfig(u, page) ==
    /\ budget[u] > 0
    /\ page \in ConfigPages
    /\ budget' = [budget EXCEPT ![u] = @ - 1]
    /\ LET g == get_config(u, heap, user_configs) IN
       /\ user_configs' = g.user_configs
       /\ heap' = g.heap
    /\ calls' = Disturb(calls, u)
    /\ Forget(u)
    /\ UNCHANGED <<parsing_tasks, tasks, db, outbox, clock, cycles_left,
                   boots_left, stop_done, cp, dialog, update>>

\* show_stats up to the first SELECT of Database.get_user_stats (lines 980
\* and 304-305)
ShowStats(u) ==
    /\ budget[u] > 0
    /\ budget' = [budget EXCEPT ![u] = @ - 1]
    /\ calls' = Append(Disturb(calls, u), Call("stats", u, "count_total", 0))
    /\ Forget(u)
    /\ UNCHANGED <<heap, user_configs, parsing_tasks, tasks, db, outbox, clock,
                   cycles_left, boots_left, stop_done, cp, dialog, update>>

\* a step of a handler that reads the database: only the call changes
ReadStep(k, call) ==
    /\ calls' = [calls EXCEPT ![k] = call]
    /\ UNCHANGED <<heap, user_configs, parsing_tasks, tasks, db, outbox, clock,
                   budget, cycles_left, boots_left, stop_done, changed, cp,
                   dialog, update>>

\* Database.get_user_stats (lines 301-338) runs one SELECT at a time, and
\* between two of them the tasks and the other handlers run.
\* Lines 305-310: the first SELECT, on the table as it is at this await
get_user_stats_total(k) ==
    /\ calls[k].pc = "count_total"
    /\ ReadStep(k, [calls[k] EXCEPT
                       !.stats.total = CountTotal(user_news, calls[k].user_id),
                       !.pc = "count_relevant"])

\* lines 312-317: the second SELECT
get_user_stats_relevant(k) ==
    /\ calls[k].pc = "count_relevant"
    /\ ReadStep(k, [calls[k] EXCEPT
                       !.stats.relevant = CountRelevant(user_news, calls[k].user_id),
                       !.pc = "count_sent"])

\* lines 319-324: the third SELECT
get_user_stats_sent(k) ==
    /\ calls[k].pc = "count_sent"
    /\ ReadStep(k, [calls[k] EXCEPT
                       !.stats.sent = CountSent(user_news, calls[k].user_id),
                       !.pc = "sum_counts"])

\* lines 326-337: the fourth SELECT and the dict, which show_stats gets
get_user_stats_sums(k) ==
    /\ calls[k].pc = "sum_counts"
    /\ LET pattern_stats == SelectSums(user_news, calls[k].user_id) IN
       ReadStep(k, [calls[k] EXCEPT
                       !.stats.major_count = OrZero(pattern_stats.major_count),
                       !.stats.minor_count = OrZero(pattern_stats.minor_count),
                       !.pc = "get_stats"])

\* show_stats after get_user_stats has returned: get_config (line 981)
\* and the reply
ShowStatsConfig(k) ==
    /\ calls[k].pc = "get_stats"
    /\ LET g == get_config(calls[k].user_id, heap, user_configs) IN
       /\ user_configs' = g.user_configs
       /\ heap' = g.heap
    /\ calls' = RemoveAt(calls, k)
    /\ UNCHANGED <<parsing_tasks, tasks, db, outbox, clock, budget,
                   cycles_left, boots_left, stop_done, changed, cp, dialog,
                   update>>

\* add_minor_pattern and add_major_pattern up to the await of edit_text
AskPattern(u, kind) ==
    /\ budget[u] > 0
    /\ budget' = [budget EXCEPT ![u] = @ - 1]
    /\ calls' = Append(Disturb(calls, u),
                       Call(IF kind = "minor" THEN "ask_minor" ELSE "ask_major",
                            u, "edit_text", 0))
    /\ Forget(u)
    /\ UNCHANGED <<heap, user_configs, parsing_tasks, tasks, db, outbox, clock,
                   cycles_left, boots_left, stop_done, cp, dialog, update>>

\* set_threshold up to the await of edit_text
AskThreshold(u) ==
    /\ budget[u] > 0
    /\ budget' = [budget EXCEPT ![u] = @ - 1]
    /\ LET g == get_config(u, heap, user_configs) IN
       /\ user_configs' = g.user_configs
       /\ heap' = g.heap
       /\ calls' = Append(Disturb(calls, u),
                          Call("ask_threshold", u, "edit_text", g.ref))
    /\ Forget(u)
    /\ UNCHANGED <<parsing_tasks, tasks, db, outbox, clock, cycles_left,
                   boots_left, stop_done, cp, dialog, update>>

\* after edit_text: state.set_state of add_minor_pattern, add_major_pattern
\* and set_threshold, state.update_data of edit_minor_patterns and
\* edit_major_patterns
AfterEditText(k) ==
    /\ calls[k].pc = "edit_text"
    /\ dialog' = [dialog EXCEPT ![calls[k].user_id] =
                    CASE calls[k].kind = "ask_minor" ->
                             [@ EXCEPT !.state = "adding_minor"]
                      [] calls[k].kind = "ask_major" ->
                             [@ EXCEPT !.state = "adding_major"]
                      [] calls[k].kind = "ask_threshold" ->
                             [@ EXCEPT !.state = "setting_threshold"]
                      [] calls[k].kind = "edit_minor" ->
                             [@ EXCEPT !.selected["minor"] = <<>>]
                      [] calls[k].kind = "edit_major" ->
                             [@ EXCEPT !.selected["major"] = <<>>]]
    /\ calls' = RemoveAt(calls, k)
    /\ UNCHANGED <<heap, user_configs, parsing_tasks, tasks, db, outbox, clock,
                   budget, cycles_left, boots_left, stop_done, changed, cp,
                   update>>

\* cancel_handler: /cancel or the text "cancel"
CancelHandler(u) ==
    /\ budget[u] > 0
    /\ budget' = [budget EXCEPT ![u] = @ - 1]
    /\ dialog' = IF dialog[u].state = "none" THEN dialog
                 ELSE [dialog EXCEPT ![u] = StateClear(@)]
    /\ calls' = Disturb(calls, u)
    /\ Forget(u)
    /\ UNCHANGED <<heap, user_configs, parsing_tasks, tasks, db, outbox, clock,
                   cycles_left, boots_left, stop_done, cp, update>>

\* process_minor_pattern and process_major_pattern, the handlers of a
\* message in the state adding_minor or adding_major.  Only re.error is
\* caught (593): another exception of re.compile ends the handler after
\* get_config, with no answer.  The re module is that of the interpreter
\* the bot runs on, either of ReModules
ProcessPattern(u, kind, text) ==
    /\ budget[u] > 0
    /\ dialog[u].state = AddingState(kind)
    /\ budget' = [budget EXCEPT ![u] = @ - 1]
    /\ \E maxwidth \in ReModules :
       LET pattern == Strip(text)
           g == get_config(u, heap, user_configs)
           compiled == re_compile(pattern, maxwidth)
       IN  /\ user_configs' = g.user_configs
           /\ IF compiled = "other"
              THEN /\ heap' = g.heap
                   /\ calls' = Disturb(calls, u)
                   /\ update' = Update("process_pattern", u, kind, text,
                                       "raised")
              ELSE IF Compiles(pattern, maxwidth)
              THEN /\ heap' = [g.heap EXCEPT ![g.ref] =
                                 WithPatternList(@, kind,
                                     Append(PatternList(@, kind), pattern))]
                   /\ calls' = Append(Disturb(calls, u),
                                      [Call(IF kind = "minor" THEN "add_minor"
                                            ELSE "add_major",
                                            u, "save_conn", g.ref)
                                          EXCEPT !.alone = NoCallOf(calls, u)])
                   /\ update' = Update("process_pattern", u, kind, text, "none")
              ELSE /\ heap' = g.heap
                   /\ calls' = Disturb(calls, u)
                   /\ update' = Update("process_pattern", u, kind, text,
                                       "invalid_regex")
    /\ Forget(u)
    /\ UNCHANGED <<parsing_tasks, tasks, db, outbox, clock, cycles_left,
                   boots_left, stop_done, cp, dialog>>

\* process_threshold, the handler of a message in the state
\* setting_threshold
ProcessThreshold(u, text) ==
    /\ budget[u] > 0
    /\ dialog[u].state = "setting_threshold"
    /\ budget' = [budget EXCEPT ![u] = @ - 1]
    /\ IF ReadThreshold(text) = <<>>
       THEN /\ update' = Update("process_threshold", u, "none", text,
                                "invalid_value")
            /\ calls' = Disturb(calls, u)
            /\ UNCHANGED <<heap, user_configs>>
       ELSE LET g == get_config(u, heap, user_configs) IN
            /\ user_configs' = g.user_configs
            /\ heap' = [g.heap EXCEPT ![g.ref].min_minor_required =
                                          ReadThreshold(text)[1]]
            /\ calls' = Append(Disturb(calls, u),
                               [Call("threshold", u, "save_conn", g.ref)
                                   EXCEPT !.alone = NoCallOf(calls, u)])
            /\ update' = Update("process_threshold", u, "none", text, "none")
    /\ Forget(u)
    /\ UNCHANGED <<parsing_tasks, tasks, db, outbox, clock, cycles_left,
                   boots_left, stop_done, cp, dialog>>

\* edit_minor_patterns and edit_major_patterns up to the await of
\* edit_text: the keyboard has one toggle button per pattern of the list
EditPatterns(u, kind) ==
    /\ budget[u] > 0
    /\ budget' = [budget EXCEPT ![u] = @ - 1]
    /\ LET g == get_config(u, heap, user_configs)
           list == PatternList(g.heap[g.ref], kind)
       IN  /\ user_configs' = g.user_configs
           /\ heap' = g.heap
           /\ IF list = <<>>
              THEN /\ dialog' = dialog
                   /\ calls' = Disturb(calls, u)
                   /\ update' = Update("edit_patterns", u, kind, <<>>,
                                       "no_patterns")
              ELSE /\ dialog' = [dialog EXCEPT
                                   ![u].shown[kind] = Max(@, Len(list))]
                   /\ calls' = Append(Disturb(calls, u),
                                      Call(IF kind = "minor" THEN "edit_minor"
                                           ELSE "edit_major",
                                           u, "edit_text", g.ref))
                   /\ update' = Update("edit_patterns", u, kind, <<>>,
                                       "keyboard")
    /\ Forget(u)
    /\ UNCHANGED <<parsing_tasks, tasks, db, outbox, clock, cycles_left,
                   boots_left, stop_done, cp>>

\* toggle_minor_pattern and toggle_major_pattern, for a button of a keyboard
\* the user was shown
TogglePattern(u, kind, index) ==
    /\ budget[u] > 0
    /\ index \in 0..(dialog[u].shown[kind] - 1)
    /\ budget' = [budget EXCEPT ![u] = @ - 1]
    /\ LET g == get_config(u, heap, user_configs)
           list == PatternList(g.heap[g.ref], kind)
       IN  /\ user_configs' = g.user_configs
           /\ heap' = g.heap
           /\ dialog' = [dialog EXCEPT
                           ![u].selected[kind] = Toggled(@, index),
                           ![u].shown[kind] = Max(@, Len(list))]
    /\ update' = Update("toggle_pattern", u, kind, <<index>>, "keyboard")
    /\ calls' = Disturb(calls, u)
    /\ Forget(u)
    /\ UNCHANGED <<parsing_tasks, tasks, db, outbox, clock, cycles_left,
                   boots_left, stop_done, cp>>

\* delete_selected_minors and delete_selected_majors
DeleteSelected(u, kind) ==
    /\ budget[u] > 0
    /\ budget' = [budget EXCEPT ![u] = @ - 1]
    /\ LET selected == dialog[u].selected[kind] IN
       IF selected = <<>>
       THEN /\ update' = Update("delete_selected", u, kind, <<>>,
                                "nothing_selected")
            /\ calls' = Disturb(calls, u)
            /\ UNCHANGED <<heap, user_configs>>
       ELSE LET g == get_config(u, heap, user_configs) IN
            /\ user_configs' = g.user_configs
            /\ heap' = [g.heap EXCEPT ![g.ref] =
                          WithPatternList(@, kind,
                              PopSelected(PatternList(@, kind),
                                          SortedReverse(selected)))]
            /\ calls' = Append(Disturb(calls, u),
                               Call("delete", u, "save_conn", g.ref))
            /\ update' = Update("delete_selected", u, kind, selected, "none")
    /\ Forget(u)
    /\ UNCHANGED <<parsing_tasks, tasks, db, outbox, clock, cycles_left,
                   boots_left, stop_done, cp, dialog>>

\* Database.save_user_config in a handler: the connection is open and
\* json.dumps(config.to_dict()) is evaluated
CallSaveConn(k) ==
    /\ calls[k].pc = "save_conn"
    /\ calls' = [calls EXCEPT ![k].snap = <<to_dict(heap[calls[k].config])>>,
                              ![k].pc = "save_write"]
    /\ UNCHANGED <<heap, user_configs, parsing_tasks, tasks, db, outbox, clock,
                   budget, cycles_left, boots_left, stop_done,
                   changed, cp, dialog, update>>

\* Database.save_user_config in a handler: INSERT OR REPLACE INTO users and
\* the commit
CallSaveWrite(k) ==
    /\ calls[k].pc = "save_write"
    /\ users_tbl' = [users_tbl EXCEPT ![calls[k].user_id] = calls[k].snap]
    /\ calls' = [calls EXCEPT ![k].pc = "save_close"]
    /\ UNCHANGED <<heap, user_configs, parsing_tasks, tasks, user_news, news_seq,
                   outbox,
                   clock, budget, cycles_left, boots_left, stop_done,
                   changed, cp, dialog, update>>

\* Database.save_user_config raises in a handler, before anything is
\* written: no handler has a try around the call, so the handler ends
\* there, with what it did before the save done and the rest (create_task,
\* the answer, state.clear()) not
CallSaveFails(k) ==
    /\ calls[k].pc \in {"save_conn", "save_write"}
    /\ calls' = RemoveAt(calls, k)
    /\ UNCHANGED <<heap, user_configs, parsing_tasks, tasks, db, outbox, clock,
                   budget, cycles_left, boots_left, stop_done,
                   changed, cp, dialog, update>>

\* start_parsing_for_user after its save has returned: lines 394-395
StartFinish(k) ==
    /\ calls[k].pc = "save_close"
    /\ calls[k].kind = "start"
    /\ tasks' = Append(tasks, NewTask(calls[k].user_id, calls[k].config))
    /\ parsing_tasks' = [parsing_tasks EXCEPT ![calls[k].user_id] = Len(tasks) + 1]
    /\ calls' = RemoveAt(calls, k)
    /\ UNCHANGED <<heap, user_configs, db, outbox, clock, budget,
                   cycles_left, boots_left, stop_done,
                   changed, cp, dialog, update>>

\* stop_parsing_for_user after its save has returned: the call has completed
StopFinish(k) ==
    /\ calls[k].pc = "save_close"
    /\ calls[k].kind = "stop"
    /\ stop_done' = [stop_done EXCEPT ![calls[k].user_id] = ~calls[k].overtaken]
    /\ calls' = RemoveAt(calls, k)
    /\ UNCHANGED <<heap, user_configs, parsing_tasks, tasks, db, outbox,
                   clock, budget, cycles_left, boots_left, changed, cp, dialog, update>>

\* cmd_start and the handlers of the pattern dialogs after their save has
\* returned; the dialog handlers end with state.clear()
SaveFinish(k) ==
    /\ calls[k].pc = "save_close"
    /\ calls[k].kind \notin {"start", "stop"}
    /\ calls' = RemoveAt(calls, k)
    /\ changed' = IF calls[k].kind \in {"add_minor", "threshold"} /\ calls[k].alone
                  THEN [changed EXCEPT ![calls[k].user_id] =
                                           <<Ruleset(heap[calls[k].config])>>]
                  ELSE changed
    /\ dialog' = IF calls[k].kind = "cmd_start" THEN dialog
                 ELSE [dialog EXCEPT ![calls[k].user_id] = StateClear(@)]
    /\ UNCHANGED <<heap, user_configs, parsing_tasks, tasks, db, outbox,
                   clock, budget, cycles_left, boots_left, stop_done, cp, update>>

(***************************************************************************)
(* The process is killed and started again: main() runs Database.init and  *)
(* load_all_configs on the database the last run left.                     *)
(***************************************************************************)
UserOrder == <<1, 2>>

\* the users with a row in table users, in row order
RECURSIVE StoredUsers(_, _)
StoredUsers(tbl, i) ==
    IF i > Len(UserOrder) THEN <<>>
    ELSE (IF tbl[UserOrder[i]] # <<>> THEN <<UserOrder[i]>> ELSE <<>>)
         \o StoredUsers(tbl, i + 1)

\* load_all_configs, lines 467-480: every row becomes a config object, and
\* start_parsing_for_user is called for those with is_parsing set; the
\* calls that do not return at once go on as start calls
LoadAllConfigs ==
    LET stored == StoredUsers(users_tbl, 1)
        loaded == [i \in 1..Len(stored) |-> from_dict(users_tbl[stored[i]][1])]
        ref(u) == CHOOSE i \in 1..Len(stored) : stored[i] = u
        isloaded(u) == \E i \in 1..Len(stored) : stored[i] = u
        starting == SelectSeq(stored,
                       LAMBDA u : loaded[ref(u)].is_parsing
                                  /\ ~StartReturns(loaded[ref(u)]))
    IN  [heap |-> loaded,
         user_configs |-> [u \in Users |-> IF isloaded(u) THEN ref(u) ELSE 0],
         calls |-> [i \in 1..Len(starting) |->
                      Call("start", starting[i], "save_conn", ref(starting[i]))]]

Restart ==
    /\ boots_left > 0
    /\ boots_left' = boots_left - 1
    /\ heap' = LoadAllConfigs.heap
    /\ user_configs' = LoadAllConfigs.user_configs
    /\ calls' = LoadAllConfigs.calls
    /\ tasks' = <<>>
    /\ parsing_tasks' = [u \in Users |-> 0]
    /\ changed' = [u \in Users |-> <<>>]
    /\ dialog' = [u \in Users |-> StateClear(dialog[u])]
    /\ UNCHANGED <<db, outbox, clock, budget, cycles_left, stop_done, cp, update>>

(***************************************************************************)
(* The specification: a new database, one user sending commands.           *)
(***************************************************************************)
CpIdle == [text |-> <<>>, config |-> Ruleset(UserConfig(0)), result |-> <<>>]

\* the state after construction on a new database, with the commands user 1
\* may send, the poll cycles and the process restarts of the run
InitWith(commands, cycles, restarts) ==
    /\ heap = <<>>
    /\ user_configs = [u \in Users |-> 0]
    /\ parsing_tasks = [u \in Users |-> 0]
    /\ tasks = <<>>
    /\ calls = <<>>
    /\ users_tbl = [u \in Users |-> <<>>]
    /\ user_news = <<>>
    /\ news_seq = 0
    /\ outbox = <<>>
    /\ clock = 0
    /\ budget = [u \in Users |-> IF u = 1 THEN commands ELSE 0]
    /\ cycles_left = cycles
    /\ boots_left = restarts
    /\ stop_done = [u \in Users |-> FALSE]
    /\ changed = [u \in Users |-> <<>>]
    /\ cp = CpIdle
    /\ dialog = [u \in Users |-> NoDialog]
    /\ update = NoUpdate

Init == InitWith(MaxCommands, MaxCycles, MaxBoots)

TaskStep ==
    \E t \in DOMAIN tasks :
        \/ TaskLoop(t)
        \/ TaskInsert(t)
        \/ TaskSend(t)
        \/ TaskMark(t)
        \/ TaskPause(t)
        \/ TaskSaveConn(t)
        \/ TaskSaveWrite(t)
        \/ TaskSaveClose(t)

\* the task lifecycle: start, stop and /start commands, process restarts
Next ==
    \/ \E u \in Users : StartParsing(u)
    \/ \E u \in Users : StopParsing(u)
    \/ \E u \in Users : CmdStart(u)
    \/ \E u \in Users, page \in ConfigPages : ShowConfig(u, page)
    \/ \E k \in DOMAIN calls : CmdStartLoad(k)
    \/ \E k \in DOMAIN calls : CmdStartInstall(k)
    \/ \E k \in DOMAIN calls : CallSaveConn(k)
    \/ \E k \in DOMAIN calls : CallSaveWrite(k)
    \/ \E k \in DOMAIN calls : StartFinish(k)
    \/ \E k \in DOMAIN calls : StopFinish(k)
    \/ \E k \in DOMAIN calls : SaveFinish(k)
    \/ TaskStep
    \/ Restart

Spec == Init /\ [][Next]_vars

(***************************************************************************)
(* SpecRules: a pattern is added while the user's task polls.              *)
(***************************************************************************)
InitRules == InitWith(RulesCommands, RulesCycles, 0)

NextRules ==
    \/ \E u \in Users : StartParsing(u)
    \/ \E u \in Users : CmdStart(u)
    \/ \E u \in Users, page \in ConfigPages : ShowConfig(u, page)
    \/ \E u \in Users : AskPattern(u, "minor")
    \/ \E k \in DOMAIN calls : AfterEditText(k)
    \/ \E u \in Users, p \in SentPatterns : AddMinor(u, p)
    \/ \E k \in DOMAIN calls : CmdStartLoad(k)
    \/ \E k \in DOMAIN calls : CmdStartInstall(k)
    \/ \E k \in DOMAIN calls : CallSaveConn(k)
    \/ \E k \in DOMAIN calls : CallSaveWrite(k)
    \/ \E k \in DOMAIN calls : StartFinish(k)
    \/ \E k \in DOMAIN calls : SaveFinish(k)
    \/ TaskStep

SpecRules == InitRules /\ [][NextRules]_vars

(***************************************************************************)
(* SpecFaults: the user starts and stops a task; the fetch of the feed and  *)
(* the database calls of the task and of the handlers may raise.           *)
(***************************************************************************)
InitFaults == InitWith(FaultCommands, FaultCycles, 0)

NextFaults ==
    \/ \E u \in Users : StartParsing(u)
    \/ \E u \in Users : StopParsing(u)
    \/ \E k \in DOMAIN calls : CallSaveConn(k)
    \/ \E k \in DOMAIN calls : CallSaveWrite(k)
    \/ \E k \in DOMAIN calls : StartFinish(k)
    \/ \E k \in DOMAIN calls : StopFinish(k)
    \/ \E k \in DOMAIN calls : CallSaveFails(k)
    \/ TaskStep
    \/ \E t \in DOMAIN tasks : TaskFetchFails(t)
    \/ \E t \in DOMAIN tasks, committed \in BOOLEAN :
           TaskInsertFails(t, committed)
    \/ \E t \in DOMAIN tasks : TaskMarkFails(t)
    \/ \E t \in DOMAIN tasks : TaskSaveFails(t)

SpecFaults == InitFaults /\ [][NextFaults]_vars

(***************************************************************************)
(* SpecEdit: the user sends expressions and numbers in the adding_minor,   *)
(* adding_major and setting_threshold dialogs.                             *)
(***************************************************************************)
InitEdit == InitWith(EditCommands, 0, 0)

NextEdit ==
    \/ \E u \in Users, kind \in ListKinds : AskPattern(u, kind)
    \/ \E u \in Users : AskThreshold(u)
    \/ \E u \in Users : CancelHandler(u)
    \/ \E k \in DOMAIN calls : AfterEditText(k)
    \/ \E u \in Users, kind \in ListKinds, text \in EditExpressions :
           ProcessPattern(u, kind, text)
    \/ \E u \in Users, text \in EditNumbers : ProcessThreshold(u, text)
    \/ \E u \in Users, page \in ConfigPages : ShowConfig(u, page)
    \/ \E u \in Users : ShowStats(u)
    \/ \E k \in DOMAIN calls : get_user_stats_total(k)
    \/ \E k \in DOMAIN calls : get_user_stats_relevant(k)
    \/ \E k \in DOMAIN calls : get_user_stats_sent(k)
    \/ \E k \in DOMAIN calls : get_user_stats_sums(k)
    \/ \E k \in DOMAIN calls : ShowStatsConfig(k)
    \/ \E k \in DOMAIN calls : CallSaveConn(k)
    \/ \E k \in DOMAIN calls : CallSaveWrite(k)
    \/ \E k \in DOMAIN calls : SaveFinish(k)

SpecEdit == InitEdit /\ [][NextEdit]_vars

(***************************************************************************)
(* SpecDelete: the user adds patterns and deletes patterns with the        *)
(* keyboards of edit_minor_patterns and edit_major_patterns.               *)
(***************************************************************************)
InitDelete == InitWith(DeleteCommands, 0, 0)

NextDelete ==
    \/ \E u \in Users, kind \in ListKinds : EditPatterns(u, kind)
    \/ \E u \in Users, kind \in ListKinds, index \in DeleteButtons :
           TogglePattern(u, kind, index)
    \/ \E u \in Users : CancelHandler(u)
    \/ \E k \in DOMAIN calls : AfterEditText(k)
    \/ \E u \in Users, kind \in ListKinds : DeleteSelected(u, kind)
    \/ \E k \in DOMAIN calls : CallSaveConn(k)
    \/ \E k \in DOMAIN calls : CallSaveWrite(k)
    \/ \E k \in DOMAIN calls : SaveFinish(k)

SpecDelete == InitDelete /\ [][NextDelete]_vars

(***************************************************************************)
(* SpecForm: every handler that writes a config, the poll task and the     *)
(* startup loading.                                                        *)
(***************************************************************************)
InitForm == InitWith(FormCommands, FormCycles, FormBoots)

NextForm ==
    \/ \E u \in Users, kind \in ListKinds : AskPattern(u, kind)
    \/ \E u \in Users : AskThreshold(u)
    \/ \E u \in Users : CancelHandler(u)
    \/ \E k \in DOMAIN calls : AfterEditText(k)
    \/ \E u \in Users, kind \in ListKinds, text \in SentExpressions :
           ProcessPattern(u, kind, text)
    \/ \E u \in Users, text \in SentNumbers : ProcessThreshold(u, text)
    \/ \E u \in Users, kind \in ListKinds : EditPatterns(u, kind)
    \/ \E u \in Users, kind \in ListKinds, index \in FormButtons :
           TogglePattern(u, kind, index)
    \/ \E u \in Users, kind \in ListKinds : DeleteSelected(u, kind)
    \/ \E u \in Users : CmdStart(u)
    \/ \E u \in Users, page \in ConfigPages : ShowConfig(u, page)
    \/ \E u \in Users : ShowStats(u)
    \/ \E k \in DOMAIN calls : get_user_stats_total(k)
    \/ \E k \in DOMAIN calls : get_user_stats_relevant(k)
    \/ \E k \in DOMAIN calls : get_user_stats_sent(k)
    \/ \E k \in DOMAIN calls : get_user_stats_sums(k)
    \/ \E k \in DOMAIN calls : ShowStatsConfig(k)
    \/ \E u \in Users : StartParsing(u)
    \/ \E u \in Users : StopParsing(u)
    \/ \E k \in DOMAIN calls : CmdStartLoad(k)
    \/ \E k \in DOMAIN calls : CmdStartInstall(k)
    \/ \E k \in DOMAIN calls : CallSaveConn(k)
    \/ \E k \in DOMAIN calls : CallSaveWrite(k)
    \/ \E k \in DOMAIN calls : StartFinish(k)
    \/ \E k \in DOMAIN calls : StopFinish(k)
    \/ \E k \in DOMAIN calls : SaveFinish(k)
    \/ TaskStep
    \/ Restart

SpecForm == InitForm /\ [][NextForm]_vars

(***************************************************************************)
(* SpecScopes: two users send commands and their tasks poll the same feed. *)
(***************************************************************************)
ScopeRuns ==
    {[commands |-> <<ScopeCommands, OtherCommands>>, cycles |-> ScopeCycles],
     [commands |-> <<OtherCommands, ScopeCommands>>, cycles |-> ScopeCycles],
     [commands |-> <<ScopeEditCommands, OtherCommands>>, cycles |-> 0],
     [commands |-> <<OtherCommands, OtherCommands>>, cycles |-> ScopePollCycles]}

InitScopes ==
    /\ heap = <<>>
    /\ user_configs = [u \in Users |-> 0]
    /\ parsing_tasks = [u \in Users |-> 0]
    /\ tasks = <<>>
    /\ calls = <<>>
    /\ users_tbl = [u \in Users |-> <<>>]
    /\ user_news = <<>>
    /\ news_seq = 0
    /\ outbox = <<>>
    /\ clock = 0
    /\ \E run \in ScopeRuns :
          /\ budget = [u \in Users |-> run.commands[u]]
          /\ cycles_left = run.cycles
    /\ boots_left = 0
    /\ stop_done = [u \in Users |-> FALSE]
    /\ changed = [u \in Users |-> <<>>]
    /\ cp = CpIdle
    /\ dialog = [u \in Users |-> NoDialog]
    /\ update = NoUpdate

\* the handlers called for user u and the poll tasks of user u
CallsOf(u) == {k \in DOMAIN calls : calls[k].user_id = u}
TasksOf(u) == {t \in DOMAIN tasks : tasks[t].user_id = u}

\* the steps taken for user u: a command u sends (start, stop, /start, a
\* pattern added to the minor list, the first minor pattern deleted, the
\* threshold set to 2), a step of a handler called for u, a step of u's
\* poll task
ScopeStep(u) ==
    \/ StartParsing(u)
    \/ StopParsing(u)
    \/ CmdStart(u)
    \/ AskPattern(u, "minor")
    \/ ProcessPattern(u, "minor", <<"b">>)
    \/ EditPatterns(u, "minor")
    \/ TogglePattern(u, "minor", 0)
    \/ DeleteSelected(u, "minor")
    \/ AskThreshold(u)
    \/ ProcessThreshold(u, <<"2">>)
    \/ \E k \in CallsOf(u) : AfterEditText(k)
    \/ \E k \in CallsOf(u) : CmdStartLoad(k)
    \/ \E k \in CallsOf(u) : CmdStartInstall(k)
    \/ \E k \in CallsOf(u) : CallSaveConn(k)
    \/ \E k \in CallsOf(u) : CallSaveWrite(k)
    \/ \E k \in CallsOf(u) : StartFinish(k)
    \/ \E k \in CallsOf(u) : StopFinish(k)
    \/ \E k \in CallsOf(u) : SaveFinish(k)
    \/ \E t \in TasksOf(u) : TaskLoop(t)
    \/ \E t \in TasksOf(u) : TaskInsert(t)
    \/ \E t \in TasksOf(u) : TaskSend(t)
    \/ \E t \in TasksOf(u) : TaskMark(t)
    \/ \E t \in TasksOf(u) : TaskPause(t)
    \/ \E t \in TasksOf(u) : TaskSaveConn(t)
    \/ \E t \in TasksOf(u) : TaskSaveWrite(t)
    \/ \E t \in TasksOf(u) : TaskSaveClose(t)

NextScopes == \E u \in Users : ScopeStep(u)

SpecScopes == InitScopes /\ [][NextScopes]_vars

(***************************************************************************)
(* SpecStop: the user presses start and stop, and no other button.         *)
(***************************************************************************)
InitStop == InitWith(StopCommands, StopCycles, 0)

NextStop ==
    \/ \E u \in Users : StartParsing(u)
    \/ \E u \in Users : StopParsing(u)
    \/ \E k \in DOMAIN calls : CallSaveConn(k)
    \/ \E k \in DOMAIN calls : CallSaveWrite(k)
    \/ \E k \in DOMAIN calls : StartFinish(k)
    \/ \E k \in DOMAIN calls : StopFinish(k)
    \/ TaskStep

SpecStop == InitStop /\ [][NextStop]_vars

(***************************************************************************)
(* SpecStart: the user presses start and sends /start, and nothing else.   *)
(***************************************************************************)
InitStart == InitWith(StartCommands, StartCycles, 0)

NextStart ==
    \/ \E u \in Users : StartParsing(u)
    \/ \E u \in Users : CmdStart(u)
    \/ \E u \in Users, page \in ConfigPages : ShowConfig(u, page)
    \/ \E k \in DOMAIN calls : CmdStartLoad(k)
    \/ \E k \in DOMAIN calls : CmdStartInstall(k)
    \/ \E k \in DOMAIN calls : CallSaveConn(k)
    \/ \E k \in DOMAIN calls : CallSaveWrite(k)
    \/ \E k \in DOMAIN calls : StartFinish(k)
    \/ \E k \in DOMAIN calls : SaveFinish(k)
    \/ TaskStep

SpecStart == InitStart /\ [][NextStart]_vars

(***************************************************************************)
(* SpecStore: the user's task ingests the feed again after the ruleset     *)
(* was changed.                                                            *)
(***************************************************************************)
InitStore == InitWith(StoreCommands, StoreCycles, 0)

NextStore ==
    \/ \E u \in Users : StartParsing(u)
    \/ \E u \in Users : AskPattern(u, "minor")
    \/ \E u \in Users : AskThreshold(u)
    \/ \E k \in DOMAIN calls : AfterEditText(k)
    \/ \E u \in Users, p \in SentPatterns : AddMinor(u, p)
    \/ \E u \in Users, v \in SentThresholds : SetThreshold(u, v)
    \/ \E k \in DOMAIN calls : CallSaveConn(k)
    \/ \E k \in DOMAIN calls : CallSaveWrite(k)
    \/ \E k \in DOMAIN calls : StartFinish(k)
    \/ \E k \in DOMAIN calls : SaveFinish(k)
    \/ TaskStep

SpecStore == InitStore /\ [][NextStore]_vars


(***************************************************************************)
(* SpecStats: the user asks for the statistics while the user's task       *)
(* polls.                                                                  *)
(***************************************************************************)
InitStats == InitWith(StatsCommands, StatsCycles, 0)

NextStats ==
    \/ \E u \in Users : StartParsing(u)
    \/ \E u \in Users : ShowStats(u)
    \/ \E k \in DOMAIN calls : get_user_stats_total(k)
    \/ \E k \in DOMAIN calls : get_user_stats_relevant(k)
    \/ \E k \in DOMAIN calls : get_user_stats_sent(k)
    \/ \E k \in DOMAIN calls : get_user_stats_sums(k)
    \/ \E k \in DOMAIN calls : ShowStatsConfig(k)
    \/ \E k \in DOMAIN calls : CallSaveConn(k)
    \/ \E k \in DOMAIN calls : CallSaveWrite(k)
    \/ \E k \in DOMAIN calls : StartFinish(k)
    \/ TaskStep

SpecStats == InitStats /\ [][NextStats]_vars

(***************************************************************************)
(* SpecPopulation: Database.get_user_stats as a function of the table, on  *)
(* a database whose table user_news holds rows drawn from bounded sets and *)
(* which nothing writes to.  The columns take the values the schema admits *)
(* (lines 172-189): is_relevant is a column with DEFAULT 0, which the      *)
(* second SELECT of get_user_stats tests; (user_id, guid) is unique.       *)
(***************************************************************************)
RowKinds ==
    [user_id : Users, is_relevant : BOOLEAN, sent_to_user : BOOLEAN,
     major_count : 0..PopulationCount, minor_count : 0..PopulationCount]

\* the row with id i of a population
StoredRow(i, kind) ==
    [id |-> i, user_id |-> kind.user_id, guid |-> <<"g", i>>,
     title |-> Entry1.title, summary |-> Entry1.summary,
     link |-> Entry1.link, published |-> Entry1.published,
     is_relevant |-> kind.is_relevant,
     major_count |-> kind.major_count,
     minor_count |-> kind.minor_count,
     sent_to_user |-> kind.sent_to_user,
     matched_patterns |-> <<>>]

\* the table with the rows of these kinds, in order of insertion
Population(kinds) == [i \in DOMAIN kinds |-> StoredRow(i, kinds[i])]

InitPopulation ==
    /\ heap = <<>>
    /\ user_configs = [u \in Users |-> 0]
    /\ parsing_tasks = [u \in Users |-> 0]
    /\ tasks = <<>>
    /\ calls = <<>>
    /\ users_tbl = [u \in Users |-> <<>>]
    /\ \E n \in 0..PopulationRows :
          \E kinds \in [1..n -> RowKinds] : user_news = Population(kinds)
    /\ news_seq = Len(user_news)
    /\ outbox = <<>>
    /\ clock = 0
    /\ budget = [u \in Users |-> IF u = 1 THEN 1 ELSE 0]
    /\ cycles_left = 0
    /\ boots_left = 0
    /\ stop_done = [u \in Users |-> FALSE]
    /\ changed = [u \in Users |-> <<>>]
    /\ cp = CpIdle
    /\ dialog = [u \in Users |-> NoDialog]
    /\ update = NoUpdate

NextPopulation ==
    \/ \E u \in Users : ShowStats(u)
    \/ \E k \in DOMAIN calls : get_user_stats_total(k)
    \/ \E k \in DOMAIN calls : get_user_stats_relevant(k)
    \/ \E k \in DOMAIN calls : get_user_stats_sent(k)
    \/ \E k \in DOMAIN calls : get_user_stats_sums(k)
    \/ \E k \in DOMAIN calls : ShowStatsConfig(k)

SpecPopulation == InitPopulation /\ [][NextPopulation]_vars

(***************************************************************************)
(* SpecClassify: check_patterns as a function, called once on a text and a *)
(* ruleset drawn from bounded sets.                                        *)
(***************************************************************************)
Texts == SeqsUpTo(Chars, MaxTextLen)

Rulesets ==
    [minor_patterns : SeqsUpTo(Patterns, MaxMinors),
     major_patterns : SeqsUpTo(Patterns, MaxMajors),
     min_minor_required : 1..MaxThreshold]

InitClassify ==
    /\ heap = <<>>
    /\ user_configs = [u \in Users |-> 0]
    /\ parsing_tasks = [u \in Users |-> 0]
    /\ tasks = <<>>
    /\ calls = <<>>
    /\ users_tbl = [u \in Users |-> <<>>]
    /\ user_news = <<>>
    /\ news_seq = 0
    /\ outbox = <<>>
    /\ clock = 0
    /\ budget = [u \in Users |-> 0]
    /\ cycles_left = 0
    /\ boots_left = 0
    /\ stop_done = [u \in Users |-> FALSE]
    /\ changed = [u \in Users |-> <<>>]
    /\ cp \in [text : Texts, config : Rulesets, result : {<<>>}]
    /\ dialog = [u \in Users |-> NoDialog]
    /\ update = NoUpdate

CheckPatternsCall ==
    /\ cp.result = <<>>
    /\ cp' = [cp EXCEPT !.result = <<check_patterns(cp.text, cp.config)>>]
    /\ UNCHANGED <<heap, user_configs, parsing_tasks, tasks, calls, db, outbox,
                   clock, budget, cycles_left, boots_left, stop_done,
                   changed, dialog, update>>

NextClassify == CheckPatternsCall

SpecClassify == InitClassify /\ [][NextClassify]_vars

\* the number of patterns of a list that match a text
MatchCount(pats, text) ==
    Cardinality({i \in DOMAIN pats : ReSearch(pats[i], text)})

\* the relevance rule, on the numbers of matching patterns
RelevanceRule(text, ruleset) ==
    \/ MatchCount(ruleset.major_patterns, text) > 0
    \/ MatchCount(ruleset.minor_patterns, text) >= ruleset.min_minor_required

\* C5 as stated: for every ruleset and every text, is_relevant is
\* (major_count > 0 or minor_count >= min_minor_required) on the numbers of
\* major and minor patterns that match the text.  Fails on the empty text
\* with a pattern that matches the empty string.
C5_RelevanceRuleEveryText ==
    cp.result # <<>> =>
        cp.result[1].is_relevant = RelevanceRule(cp.text, cp.config)

\* C5 amended: for every ruleset and every non-empty text, is_relevant is
\* (major_count > 0 or minor_count >= min_minor_required) on the numbers of
\* major and minor patterns that match the text, and the counts returned
\* are those numbers.
C5_RelevanceRule ==
    (cp.result # <<>> /\ cp.text # <<>>) =>
        /\ cp.result[1].is_relevant = RelevanceRule(cp.text, cp.config)
        /\ cp.result[1].major_count = MatchCount(cp.config.major_patterns, cp.text)
        /\ cp.result[1].minor_count = MatchCount(cp.config.minor_patterns, cp.text)

\* C5 witness: a text in upper case found relevant by its minor patterns
\* alone, the count just reaching a threshold of 2
C5_Witness ==
    /\ cp.result # <<>>
    /\ cp.text = <<"A", "b">>
    /\ cp.config.min_minor_required = 2
    /\ cp.result[1].major_count = 0
    /\ cp.result[1].minor_count = 2
    /\ cp.result[1].is_relevant


(***************************************************************************)
(* Properties of the task lifecycle.                                       *)
(***************************************************************************)
\* the parsing_loop tasks of a user that are alive and whose config has the
\* flag set, so that they go on running poll cycles
ActiveTasks(u) ==
    {t \in DOMAIN tasks : /\ tasks[t].user_id = u
                          /\ Alive(tasks[t])
                          /\ heap[tasks[t].config].is_parsing}

\* the user's registered task is running: alive, with the flag set
Running(u) == parsing_tasks[u] \in ActiveTasks(u)

\* task t performed, in this step, the operation it was suspended in
Inserted(t) == tasks[t].pc = "insert" /\ tasks'[t].pc \in {"send", "pause"}
Sent(t) == tasks[t].pc = "send" /\ tasks'[t].pc = "mark"
Marked(t) == tasks[t].pc = "mark" /\ tasks'[t].pc = "pause"
Fetched(t) == cycles_left' < cycles_left /\ tasks'[t] # tasks[t]

\* C1: under every interleaving of start and stop calls a user never has
\* more than one poll task that is alive and able to run poll cycles.
C1_AtMostOneActiveTask ==
    \A u \in Users : Cardinality(ActiveTasks(u)) <= 1

\* C2: a notification for a given (user, guid) is delivered at most once.
C2_SentAtMostOnce ==
    \A i, j \in DOMAIN outbox : outbox[i] = outbox[j] => i = j

\* C3: save_news_item called for a (user, guid) that is already stored
\* returns None.
C3_DuplicateReturnsNone ==
    [][\A t \in DOMAIN tasks :
          (/\ t \in DOMAIN tasks'
           /\ Inserted(t)
           /\ RowsOf(user_news, tasks[t].user_id,
                     tasks[t].entries[tasks[t].idx].id) # {})
          => tasks'[t].news_item = <<>>]_vars

\* C8: when load_all_configs has completed, every user whose persisted
\* config has is_parsing set has a running poll task in parsing_tasks.
C8_TasksRebuiltAtStartup ==
    [][(boots_left' < boots_left /\ calls' = <<>>) =>
          \A u \in Users :
              (users_tbl'[u] # <<>> /\ users_tbl'[u][1].is_parsing)
              => /\ parsing_tasks'[u] # 0
                 /\ Alive(tasks'[parsing_tasks'[u]])]_vars

\* C9: once stop_parsing_for_user has completed for a user, and as long as
\* start_parsing_for_user has not been called for that user since that stop
\* was called, no poll task of the user fetches, inserts, sends or marks.
C9_NoWorkAfterStop ==
    [][\A t \in DOMAIN tasks :
          (/\ t \in DOMAIN tasks'
           /\ stop_done[tasks[t].user_id]
           /\ stop_done'[tasks[t].user_id])
          => ~(Fetched(t) \/ Inserted(t) \/ Sent(t) \/ Marked(t))]_vars

\* C10: a start for a user whose poll task is running goes no further than
\* the test of the flag: the config is unchanged and no start_parsing_for_user
\* call goes on to spawn a task and replace the registered handle.
C10_StartNoOpWhenRunning ==
    [][\A u \in Users :
          Running(u) =>
              ~(/\ Len(calls') = Len(calls) + 1
                /\ calls'[Len(calls')].kind = "start"
                /\ calls'[Len(calls')].user_id = u)]_vars

(***************************************************************************)
(* Properties of ruleset changes and of ingestion.                         *)
(***************************************************************************)
\* C6: every entry of a poll cycle is classified with the ruleset the cycle
\* started with, whatever is changed while the cycle is suspended.
C6_NoChangeMidCycle ==
    \A t \in DOMAIN tasks :
        tasks[t].pattern_info # <<>> =>
            tasks[t].pattern_info[1] =
                check_patterns(EntryText(tasks[t].entries[tasks[t].idx]),
                               tasks[t].cycle_rules[1])

\* C7: after a pattern or threshold change of a user has completed, whatever
\* commands came before it, a cycle that the user's registered task begins
\* classifies with the ruleset the change left.
C7_ChangeSeenByNextCycle ==
    [][\A t \in DOMAIN tasks :
          LET u == tasks[t].user_id IN
          (/\ Fetched(t)
           /\ t = parsing_tasks[u]
           /\ changed[u] # <<>>)
          => tasks'[t].cycle_rules = changed[u]]_vars

\* at most one row of user_news per (user_id, guid)
UniqueRows(news) ==
    \A i, j \in DOMAIN news :
        (news[i].user_id = news[j].user_id /\ news[i].guid = news[j].guid)
        => i = j

\* C4: there is never more than one row per (user, guid), and a
\* save_news_item for a guid that is already stored leaves every stored row
\* as it was: title, summary, link, counts, matched patterns and sent flag,
\* also when the ruleset has changed since the row was written.
C4_IngestionNeverOverwrites ==
    [][/\ UniqueRows(user_news')
       /\ \A t \in DOMAIN tasks :
            (t \in DOMAIN tasks' /\ Inserted(t))
            => \A i \in DOMAIN user_news : user_news'[i] = user_news[i]]_vars

\* C4 witness: save_news_item has run for a guid whose stored row carries
\* the counts of an earlier ruleset
C4_Witness ==
    \E t \in DOMAIN tasks :
        /\ tasks[t].pc = "send"
        /\ \E i \in DOMAIN user_news :
             /\ user_news[i].id = tasks[t].news_item[1].id
             /\ user_news[i].minor_count # tasks[t].pattern_info[1].minor_count
             /\ user_news[i].sent_to_user

(***************************************************************************)
(* Properties of dispatch.                                                 *)
(***************************************************************************)
\* the positions of a task inside the for loop over feed.entries
InCycle == {"insert", "send", "mark", "pause"}

\* C11: sent_to_user is set only on rows for which a send succeeded: every
\* row with the flag has a delivered message for its (user, guid).
C11_MarkedOnlyWhenDelivered ==
    \A i \in DOMAIN user_news :
        user_news[i].sent_to_user =>
            \E m \in DOMAIN outbox :
                /\ outbox[m].chat_id = user_news[i].user_id
                /\ outbox[m].guid = user_news[i].guid

\* C12: a task for which bot.send_message failed leaves the loop over the
\* entries, at that failure and later, only after the last entry of the
\* feed result (or because the flag was cleared or the task cancelled): the
\* failure does not abort the cycle.
C12_FailedSendKeepsCycle ==
    [][\A t \in DOMAIN tasks :
          (/\ t \in DOMAIN tasks'
           /\ tasks'[t].fault = "send"
           /\ tasks[t].pc \in InCycle
           /\ tasks'[t].pc \notin InCycle)
          => \/ tasks'[t].pc = "cancelled"
             \/ tasks[t].idx = Len(tasks[t].entries)
             \/ ~heap[tasks[t].config].is_parsing]_vars

\* C12 witness: after a failed send for the first entry the task has
\* classified, stored and sent the second entry of the same feed result
C12_Witness ==
    \E t \in DOMAIN tasks :
        /\ tasks[t].fault = "send"
        /\ tasks[t].idx = 2
        /\ tasks[t].pc = "mark"
        /\ \E m \in DOMAIN outbox : outbox[m].guid = tasks[t].entries[2].id
        /\ ~\E m \in DOMAIN outbox : outbox[m].guid = tasks[t].entries[1].id

(***************************************************************************)
(* Properties of a poll task whose calls raise.                            *)
(***************************************************************************)
\* C16: a task ends only cancelled or with its flag cleared, and a task in
\* which feedparser.parse, mark_as_sent or save_user_config raised while
\* the flag is set is in its interval sleep.
C16_ErrorsNeverEndTask ==
    [][\A t \in DOMAIN tasks :
          t \in DOMAIN tasks' =>
            /\ (Alive(tasks[t]) /\ ~Alive(tasks'[t]))
                 => \/ tasks'[t].pc = "cancelled"
                    \/ ~heap'[tasks[t].config].is_parsing
            /\ (/\ tasks[t].pc \in {"mark", "save_conn", "save_write"}
                /\ tasks'[t].pc \notin {tasks[t].pc, "pause", "save_write",
                                         "save_close", "cancelled"}
                /\ heap'[tasks[t].config].is_parsing)
                 => tasks'[t].pc = "sleep"
            /\ (/\ tasks[t].pc \in {"new", "sleep"}
                /\ Fetched(t)
                /\ tasks'[t].pc \notin {"insert", "pause", "save_conn"})
                 => tasks'[t].pc = "sleep"]_vars

\* C16 witness: a task polls again after its mark_as_sent raised
C16_Witness ==
    \E t \in DOMAIN tasks :
        /\ tasks[t].fault = "mark"
        /\ tasks[t].pc \in InCycle

\* C19: a task that enters its interval sleep, after a cycle that a raise
\* of feedparser.parse or of mark_as_sent ended or whose end-of-cycle save
\* the store accepted and still holds, has updated last_checked in that
\* cycle, and the persisted config carries a last_checked of that cycle.
C19_CycleRecordsCompletion ==
    [][\A t \in DOMAIN tasks :
          (/\ t \in DOMAIN tasks'
           /\ tasks'[t].pc = "sleep"
           /\ \/ tasks[t].pc = "mark"
              \/ tasks[t].pc \in {"new", "sleep"} /\ cycles_left' < cycles_left
              \/ /\ tasks[t].pc = "save_close"
                 /\ users_tbl[tasks[t].user_id] = tasks[t].snap)
          => LET u == tasks[t].user_id IN
             /\ heap'[tasks[t].config].last_checked > tasks[t].cycle_clock
             /\ users_tbl'[u] # <<>>
             /\ users_tbl'[u][1].last_checked # JsonNull
             /\ fromisoformat(users_tbl'[u][1].last_checked) > tasks[t].cycle_clock]_vars

(***************************************************************************)
(* Properties of the writers of the config record.                         *)
(***************************************************************************)
\* C17: the end-of-cycle save of a poll task leaves the persisted pattern
\* lists and threshold those of the last completed pattern or threshold
\* change; stated for a task whose snapshot is the ruleset of its config
\* object.
C17_PollSaveKeepsRuleset ==
    [][\A t \in DOMAIN tasks :
          LET u == tasks[t].user_id IN
          (/\ t \in DOMAIN tasks'
           /\ tasks[t].pc = "save_write"
           /\ tasks'[t].pc = "save_close"
           /\ Ruleset(tasks[t].snap[1]) = Ruleset(heap[tasks[t].config])
           /\ changed[u] # <<>>
           /\ users_tbl[u] # <<>>
           /\ Ruleset(users_tbl[u][1]) = changed[u][1])
          => Ruleset(users_tbl'[u][1]) = changed[u][1]]_vars

\* C18: a step of a command handler (a command arrives, or a handler
\* resumes or returns) changes the last_checked of no user, neither in the
\* user's config in memory nor in the persisted record.
C18_LastCheckedOnlyByPollTask ==
    [][(calls' # calls \/ budget' # budget) =>
          \A u \in Users :
              /\ user_configs[u] # 0 =>
                    heap'[user_configs'[u]].last_checked
                        = heap[user_configs[u]].last_checked
              /\ users_tbl[u] # <<>> =>
                    users_tbl'[u][1].last_checked
                        = users_tbl[u][1].last_checked]_vars


(***************************************************************************)
(* Cooperative cancellation.                                               *)
(***************************************************************************)
\* stop_parsing_for_user has cleared the flag of the user's config and no
\* start has set a flag of the user since
Stopped(u) ==
    \/ stop_done[u]
    \/ \E k \in DOMAIN calls : /\ calls[k].kind = "stop"
                                /\ calls[k].user_id = u
                                /\ ~calls[k].overtaken

\* task t went on, in this step, to an entry it was not on before
StartsEntry(t) == tasks'[t].idx > 0 /\ tasks'[t].idx # tasks[t].idx

\* C20: once stop has cleared the flag of a user and while no start follows,
\* a poll task of the user begins no poll cycle and no entry other than the
\* one it is on, and its next step from the sleep ends it.
C20_StopBoundsPollTask ==
    [][\A t \in DOMAIN tasks :
          (/\ t \in DOMAIN tasks'
           /\ Stopped(tasks[t].user_id)
           /\ Stopped(tasks[t].user_id)')
          => /\ ~StartsEntry(t)
             /\ ~Fetched(t)
             /\ (tasks[t].pc = "sleep" /\ tasks'[t] # tasks[t])
                    => tasks'[t].pc \in {"done", "cancelled"}]_vars

(***************************************************************************)
(* Properties of the pattern dialogs.                                      *)
(***************************************************************************)
\* this step is the call of the handler for a new update of the user
Handled(handler, u) ==
    /\ update'.seq # update.seq
    /\ update'.handler = handler
    /\ update'.user_id = u

\* the selection holds an index that is no position of the list
OutOfBounds(selected, list) ==
    \E k \in DOMAIN selected : selected[k] < 0 \/ selected[k] >= Len(list)

\* C13: a delete request whose selection holds an index that is no position
\* of the pattern list leaves the list as it was: nothing is removed.
C13_OutOfBoundsDeleteChangesNothing ==
    [][\A u \in Users, kind \in ListKinds :
          (/\ Handled("delete_selected", u)
           /\ update'.kind = kind
           /\ OutOfBounds(dialog[u].selected[kind],
                          PatternList(ConfigOf(u, heap, user_configs), kind)))
          => PatternList(ConfigOf(u, heap', user_configs'), kind)
               = PatternList(ConfigOf(u, heap, user_configs), kind)]_vars

\* what the step leaves alone when a handler rejects the update of user u:
\* the ruleset of the user, the rows of table users, and the handlers in a
\* save
NothingChanged(u) ==
    /\ Ruleset(ConfigOf(u, heap', user_configs'))
          = Ruleset(ConfigOf(u, heap, user_configs))
    /\ users_tbl' = users_tbl
    /\ Len(calls') = Len(calls)
    /\ \A k \in DOMAIN calls : /\ calls'[k].pc = calls[k].pc
                               /\ calls'[k].snap = calls[k].snap

\* C14: when re.compile does not accept the expression sent in the
\* adding_minor or adding_major dialog, the handler answers with the error,
\* both pattern lists and the threshold are unchanged and no save of the
\* config begins.
C14_InvalidPatternChangesNothing ==
    [][\A u \in Users :
          (/\ Handled("process_pattern", u)
           /\ \A maxwidth \in ReModules :
                  re_compile(Strip(update'.text), maxwidth) # "ok")
          => /\ update'.answer = "invalid_regex"
             /\ NothingChanged(u)]_vars

\* the message has no text, or its text is no integer, or an integer
\* below 1
NoThreshold(text) ==
    \/ text = <<>>
    \/ int(Strip(text)) = <<>>
    \/ int(Strip(text))[1] < 1

\* C15: when the text sent in the setting_threshold dialog is no integer or
\* an integer below 1, process_threshold answers with the error,
\* min_minor_required keeps its value and no save of the config begins.
C15_InvalidThresholdRejected ==
    [][\A u \in Users :
          (/\ Handled("process_threshold", u)
           /\ NoThreshold(update'.text))
          => /\ update'.answer = "invalid_value"
             /\ NothingChanged(u)]_vars

\* C15 witness: 0 was rejected after the threshold had been set to 2 and
\* saved, and the threshold is still 2
C15_Witness ==
    /\ update.handler = "process_threshold"
    /\ update.text = <<"0">>
    /\ update.answer = "invalid_value"
    /\ calls = <<>>
    /\ users_tbl[1] # <<>>
    /\ users_tbl[1][1].min_minor_required = 2
    /\ heap[user_configs[1]].min_minor_required = 2

(***************************************************************************)
(* Properties of check_patterns on the empty text and of its labels.       *)
(***************************************************************************)
\* C23: for the empty text and every ruleset, also one with a pattern that
\* matches the empty string, check_patterns returns is_relevant false, both
\* counts 0 and an empty matched_patterns list.
C23_EmptyTextNotRelevant ==
    (cp.result # <<>> /\ cp.text = <<>>) =>
        /\ ~cp.result[1].is_relevant
        /\ cp.result[1].major_count = 0
        /\ cp.result[1].minor_count = 0
        /\ cp.result[1].matched_patterns = <<>>

\* C23 witness: the empty text was classified under a ruleset whose minor
\* pattern matches the empty string, with threshold 1
C23_Witness ==
    /\ cp.result # <<>>
    /\ cp.text = <<>>
    /\ cp.config.minor_patterns = << <<>> >>
    /\ cp.config.min_minor_required = 1
    /\ ~cp.result[1].is_relevant

\* the patterns of a list that are found in the text, in list order
MatchingPatterns(pats, text) ==
    SelectSeq(pats, LAMBDA p : ReSearch(p, text))

\* one label per matching pattern: the major ones in list order, then the
\* minor ones in list order
LabelsInOrder(text, ruleset, result) ==
    LET majors == MatchingPatterns(ruleset.major_patterns, text)
        minors == MatchingPatterns(ruleset.minor_patterns, text)
        matched == result.matched_patterns
    IN  /\ Len(matched) = Len(majors) + Len(minors)
        /\ \A i \in DOMAIN majors : matched[i] = <<"MAJOR: ", majors[i]>>
        /\ \A i \in DOMAIN minors :
               matched[Len(majors) + i] = <<"MINOR: ", minors[i]>>
        /\ Len(matched) = result.major_count + result.minor_count
        /\ \A i, j \in DOMAIN matched :
               (matched[i][1] = "MAJOR: " /\ matched[j][1] = "MINOR: ") => i < j

\* C24 as stated: for every text, matched_patterns holds one label per
\* matching pattern, the major ones before the minor ones, each group in
\* ruleset order, and its length is major_count + minor_count.  Fails on the
\* empty text with a pattern that matches the empty string.
C24_LabelsEveryText ==
    cp.result # <<>> => LabelsInOrder(cp.text, cp.config, cp.result[1])

\* C24 amended: for every non-empty text, matched_patterns holds one label
\* per matching pattern, the major ones before the minor ones, each group in
\* ruleset order, and its length is major_count + minor_count; for the empty
\* text no pattern is evaluated, the list is empty and both counts are 0.
C24_LabelsInOrder ==
    cp.result # <<>> =>
        IF cp.text # <<>>
        THEN LabelsInOrder(cp.text, cp.config, cp.result[1])
        ELSE /\ cp.result[1].matched_patterns = <<>>
             /\ cp.result[1].major_count + cp.result[1].minor_count = 0

\* C24 witness: two major patterns and one minor pattern match and get
\* their labels in the order of the lists, the minor pattern before the
\* matching one gets none
C24_Witness ==
    /\ cp.result # <<>>
    /\ cp.text = <<"b">>
    /\ cp.config.major_patterns = << <<"\\", "b", "b">>, <<"b">> >>
    /\ cp.config.minor_patterns = << <<"a">>, <<>> >>
    /\ cp.result[1].matched_patterns
          = << <<"MAJOR: ", <<"\\", "b", "b">>>>, <<"MAJOR: ", <<"b">>>>,
               <<"MINOR: ", <<>>>> >>
    /\ cp.result[1].major_count = 2
    /\ cp.result[1].minor_count = 1

(***************************************************************************)
(* Properties of the users side by side.                                   *)
(***************************************************************************)
\* the records of a sequence that belong to the user
OfUser(seq, u) == SelectSeq(seq, LAMBDA x : x.user_id = u)

\* what the program holds for a user: the config objects, the row of table
\* users, the task handle, the rows of user_news and the messages delivered
Scope(u) ==
    [configs |-> OfUser(heap, u),
     current |-> user_configs[u],
     row |-> users_tbl[u],
     handle |-> parsing_tasks[u],
     news |-> OfUser(user_news, u),
     messages |-> SelectSeq(outbox, LAMBDA m : m.chat_id = u)]

\* what is running for a user: the commands still to come, the dialog, the
\* handlers and the tasks
Activity(u) ==
    [commands |-> budget[u],
     dialog |-> dialog[u],
     handlers |-> OfUser(calls, u),
     polls |-> OfUser(tasks, u)]

\* C21: a step taken for user A (a command A sends: start, stop, /start,
\* pattern add, pattern delete, threshold change; a step of a handler of A;
\* a step of A's poll task: fetch, insert, send, mark-as-sent, save) leaves
\* every other user B's config objects, persisted config, task handle,
\* stored items with their sent flags and delivered messages unchanged, and
\* also B's dialog, handlers in flight and poll tasks.
C21_ScopesDoNotInterfere ==
    [][\A a \in Users :
          ScopeStep(a) =>
              \A b \in Users \ {a} :
                  Scope(b)' = Scope(b) /\ Activity(b)' = Activity(b)]_vars

\* C21 witness: user 2 has started a task, which is alive, and its config
\* is saved; user 1 has deleted the first pattern of the minor list and the
\* handler has saved the list; user 2 holds the default list in memory and
\* in table users
C21_Witness ==
    /\ parsing_tasks[2] # 0 /\ Alive(tasks[parsing_tasks[2]])
    /\ users_tbl[1] # <<>>
    /\ users_tbl[1][1].minor_patterns = Tail(DefaultMinorPatterns)
    /\ heap[user_configs[1]].minor_patterns = Tail(DefaultMinorPatterns)
    /\ users_tbl[2] # <<>>
    /\ users_tbl[2][1].minor_patterns = DefaultMinorPatterns
    /\ heap[user_configs[2]].minor_patterns = DefaultMinorPatterns
    /\ calls = <<>>

(***************************************************************************)
(* Properties of stop.                                                     *)
(***************************************************************************)
\* the user pressed stop in this step (of SpecStop, where a command is a
\* start or a stop): a command arrived and no start went on to its save
StopPressed(u) ==
    /\ budget'[u] < budget[u]
    /\ ~(/\ Len(calls') = Len(calls) + 1
         /\ calls'[Len(calls')].kind = "start")

\* C22: a stop for a user whose flag is not set leaves the flag unset,
\* cancels and registers no task, begins no save, and leaves the patterns,
\* the threshold, last_checked and the persisted config unchanged; so a
\* second stop leaves the state the first one left.
C22_StopIdempotent ==
    [][\A u \in Users :
          (StopPressed(u) /\ ~ConfigOf(u, heap, user_configs).is_parsing)
          => /\ ConfigOf(u, heap', user_configs') = ConfigOf(u, heap, user_configs)
             /\ parsing_tasks' = parsing_tasks
             /\ tasks' = tasks
             /\ Len(calls') = Len(calls)
             /\ users_tbl' = users_tbl]_vars

\* C22 witness: two stops of a user who never started: the default config
\* with the flag unset, no task, no handler in a save, nothing persisted
C22_Witness ==
    /\ budget[1] = StopCommands - 2
    /\ user_configs[1] # 0
    /\ ~heap[user_configs[1]].is_parsing
    /\ tasks = <<>>
    /\ calls = <<>>
    /\ users_tbl[1] = <<>>

(***************************************************************************)
(* Properties of the statistics and of what is stored.                     *)
(***************************************************************************)
\* the sum of a column over the relevant rows of a user, row by row
RECURSIVE RelevantSum(_, _, _)
RelevantSum(news, u, column) ==
    IF news = <<>> THEN 0
    ELSE (IF Head(news).user_id = u /\ Head(news).is_relevant
          THEN Head(news)[column] ELSE 0)
         + RelevantSum(Tail(news), u, column)

OnlyRelevantRows(news) == \A i \in DOMAIN news : news[i].is_relevant

\* a task stores a row and sends a message only for an entry it has
\* classified as relevant
OnlyRelevantHandled ==
    \A t \in DOMAIN tasks :
        (t \in DOMAIN tasks' /\ (Len(user_news') > Len(user_news) \/ Sent(t))
         /\ tasks'[t] # tasks[t])
        => tasks[t].pattern_info[1].is_relevant

\* C28: every row of user_news has is_relevant set, so that the statistics
\* get_user_stats returns have total = relevant and sent <= relevant; a task
\* stores a row and sends a message only for an entry it has classified as
\* relevant.  Fails for the statistics: a row stored, sent and marked between
\* two SELECTs of get_user_stats is counted by the later one alone.
C28_OnlyRelevantStored ==
    [][/\ OnlyRelevantRows(user_news')
       /\ \A k \in DOMAIN calls' :
             calls'[k].pc = "get_stats" =>
                 /\ calls'[k].stats.total = calls'[k].stats.relevant
                 /\ calls'[k].stats.sent <= calls'[k].stats.relevant
       /\ OnlyRelevantHandled]_vars

(***************************************************************************)
(* Properties of the flag, the registry and the persisted config.          *)
(***************************************************************************)
\* a handler of the kinds is in flight for the user
InFlight(u, kinds) ==
    \E k \in DOMAIN calls : calls[k].user_id = u /\ calls[k].kind \in kinds

\* C26: whenever no start or stop call is in progress for a user that has a
\* config, the flag of the config is set if and only if parsing_tasks holds
\* a handle of the user whose task is alive.
C26_FlagAgreesWithRegistry ==
    \A u \in Users :
        (user_configs[u] # 0 /\ ~InFlight(u, {"start", "stop"}))
        => (heap[user_configs[u]].is_parsing
              <=> (parsing_tasks[u] # 0 /\ Alive(tasks[parsing_tasks[u]])))

\* a save_user_config of the user's config is in flight: a handler of the
\* user has not returned, or a poll task of the user is in its save
SaveInFlight(u) ==
    \/ \E k \in DOMAIN calls : calls[k].user_id = u
    \/ \E t \in DOMAIN tasks :
          /\ tasks[t].user_id = u
          /\ tasks[t].pc \in {"save_conn", "save_write", "save_close"}

\* C27: whenever no save_user_config is in flight for a user, the persisted
\* record equals the config that get_config returns (patterns, threshold,
\* is_parsing, last_checked); stated for the step in which the end-of-cycle
\* save of a poll task returns, its snapshot still the state of the task's
\* config object, and after which no save of the user is in flight.
C27_NoLostConfigWrite ==
    [][\A t \in DOMAIN tasks :
          LET u == tasks[t].user_id IN
          (/\ t \in DOMAIN tasks'
           /\ tasks[t].pc = "save_close"
           /\ tasks'[t].pc \in {"sleep", "done"}
           /\ tasks[t].snap[1] = to_dict(heap[tasks[t].config])
           /\ ~SaveInFlight(u)')
          => users_tbl'[u][1] = to_dict(heap'[user_configs'[u]])]_vars

(***************************************************************************)
(* Properties of the batch deletion.                                       *)
(***************************************************************************)
\* the patterns of the list at the positions, counted from 0, that are not
\* in the selection, in the order of the list
RECURSIVE Unselected(_, _, _)
Unselected(list, selected, position) ==
    IF list = <<>> THEN <<>>
    ELSE (IF \E k \in DOMAIN selected : selected[k] = position
          THEN <<>> ELSE <<Head(list)>>)
         \o Unselected(Tail(list), selected, position + 1)

OtherKind(kind) == IF kind = "minor" THEN "major" ELSE "minor"

\* C30: a delete request whose selected indexes are all positions of the
\* pattern list as it is at that time removes exactly the patterns at those
\* positions: the others stay in their order, as many are removed as are
\* selected, and the other list and the threshold are unchanged.
C30_DeleteRemovesSelection ==
    [][\A u \in Users, kind \in ListKinds :
          LET before == ConfigOf(u, heap, user_configs)
              after == ConfigOf(u, heap', user_configs')
              selected == dialog[u].selected[kind]
          IN  (/\ Handled("delete_selected", u)
               /\ update'.kind = kind
               /\ ~OutOfBounds(selected, PatternList(before, kind)))
              => /\ PatternList(after, kind)
                      = Unselected(PatternList(before, kind), selected, 0)
                 /\ Len(PatternList(after, kind))
                      = Len(PatternList(before, kind)) - Len(selected)
                 /\ PatternList(after, OtherKind(kind))
                      = PatternList(before, OtherKind(kind))
                 /\ after.min_minor_required = before.min_minor_required]_vars

\* C30 witness: the last and the first of the seven default minor patterns
\* were selected, in this order, and deleted
C30_Witness ==
    /\ update.handler = "delete_selected"
    /\ update.kind = "minor"
    /\ update.text = <<6, 0>>
    /\ update.answer = "none"
    /\ user_configs[1] # 0
    /\ heap[user_configs[1]].minor_patterns = SubSeq(DefaultMinorPatterns, 2, 6)
    /\ heap[user_configs[1]].major_patterns = DefaultMajorPatterns

(***************************************************************************)
(* Properties of the rulesets.                                             *)
(***************************************************************************)
\* the expressions a ruleset can hold, the defaults and what the user
\* sends, and those of them re.compile accepts
Expressions ==
    Range(DefaultMinorPatterns) \cup Range(DefaultMajorPatterns)
    \cup {Strip(text) : text \in SentExpressions}
ValidExpressions ==
    {p \in Expressions :
        \A maxwidth \in ReModules : re_compile(p, maxwidth) = "ok"}

\* a threshold that is an integer of at least 1 and pattern lists whose
\* expressions re.compile accepts
WellFormed(config) ==
    /\ config.min_minor_required \in Int
    /\ config.min_minor_required >= 1
    /\ \A i \in DOMAIN config.minor_patterns :
           config.minor_patterns[i] \in ValidExpressions
    /\ \A i \in DOMAIN config.major_patterns :
           config.major_patterns[i] \in ValidExpressions

\* C29: after any sequence of handlers (pattern add, pattern delete,
\* threshold change, /start, start, stop), of poll cycles and of restarts,
\* the config of every user, in memory and in table users, has a
\* min_minor_required that is an integer >= 1 and pattern lists of valid
\* regular expressions.
C29_RulesetsWellFormed ==
    /\ \A r \in DOMAIN heap : WellFormed(heap[r])
    /\ \A u \in Users : users_tbl[u] # <<>> => WellFormed(users_tbl[u][1])

\* C29 witness: the expression "b" was taken in the adding_minor dialog, and
\* the config in memory and the persisted record hold it after the defaults
C29_Witness ==
    /\ update.handler = "process_pattern"
    /\ update.text = <<"b">>
    /\ update.answer = "none"
    /\ calls = <<>>
    /\ user_configs[1] # 0
    /\ heap[user_configs[1]].minor_patterns
          = Append(DefaultMinorPatterns, <<"b">>)
    /\ users_tbl[1] # <<>>
    /\ users_tbl[1][1].minor_patterns = Append(DefaultMinorPatterns, <<"b">>)

====
